---- MODULE Spec2Model ----
(***************************************************************************)
(* A model of the interview engine of AI_friend_biographer:                *)
(*   - InterviewSession (src/src/interview_session/interview_session.py):  *)
(*     the message router, the auto-update scheduler and run()'s teardown; *)
(*   - Biography (src/src/content/biography/biography.py): the section     *)
(*     tree, its write guard, its pending-writes counter and save().       *)
(*                                                                         *)
(* Scheduling.  The program runs on one asyncio event loop.  A task gives  *)
(* up the loop only where it awaits something that can suspend: a sleep, a *)
(* lock, an event, an executor call (the LLM).  An await of a coroutine    *)
(* that holds none of these runs through, so it is part of the same step.  *)
(* Tasks made with create_task run in creation order: `ready` is the       *)
(* loop's FIFO queue.  In the biography every lock acquisition and the     *)
(* event wait are taken as points where another task may run.              *)
(***************************************************************************)
EXTENDS Integers, Sequences, FiniteSets, TLC

(***************************************************************************)
(* Bounds of the model.                                                    *)
(***************************************************************************)
MaxPosts == 4        \* messages created in a session with a user participant
MaxApiPosts == 3     \* messages created in a session in API mode
MaxOps == 2          \* calls made on the biography by one caller
MaxWrites == 3       \* calls made on the biography by concurrent callers
MaxMemories == 3     \* memories the Scribe is given when its lists are looked at alone
MaxLists == 8        \* list objects made when the Scribe's lists are looked at alone
timeout_minutes == 1 \* SESSION_TIMEOUT_MINUTES where the clock is modelled

(***************************************************************************)
(* Configuration values the session reads at construction.                 *)
(***************************************************************************)
Thresholds == {2, 10}      \* MEMORY_THRESHOLD_FOR_UPDATE (10 by default)
TurnCaps == {0, 2}         \* max_turns; 0 stands for None
Modes == {"agent", "api"}  \* 'terminal' differs from 'agent' in the signal handler only

Roles == {"Interviewer", "User"}
MessageTypes == {"conversation", "skip", "like"}

NoMsg == [id |-> 0, role |-> "none", type |-> "none"]

VARIABLES
    \* ---- InterviewSession ----
    interaction_mode,                   \* 'terminal' | 'agent' | 'api'
    max_turns,                          \* 0 is None
    memory_threshold,
    session_in_progress,
    session_completed,
    session_timeout,                    \* _session_timeout
    chat_history,                       \* list of Message
    user_message_count,                 \* _user_message_count
    last_user_message,                  \* _last_user_message (NoMsg is None)
    auto_biography_update_in_progress,
    run_pc,                             \* position of run()
    banks_saved,                        \* the banks run() has written, in order
    \* ---- the event loop ----
    ready,                              \* tasks created and not yet run, FIFO
    inflight,                           \* auto-updates inside update_biography_with_memories
    \* ---- observation of the router ----
    calls,                              \* Message objects created so far
    post_result,                        \* how the latest add_message_to_chat_history ended
    delivered,                          \* per subscriber: messages on_message started for
    \* ---- the participants that answer ----
    interviewer_pending,                \* Interviewer.on_message calls not yet answered
    user_pending,                       \* User.on_message calls not yet answered
    \* ---- SessionScribe ----
    last_interviewer_message,           \* _last_interviewer_message
    pending_tasks,                      \* _pending_tasks
    processing_in_progress,
    qa_tasks,                           \* the _process_qa_pair tasks that are running
    new_memories,                       \* _new_memories
    all_session_memories,               \* _all_session_memories
    \* ---- BiographyOrchestrator ----
    biography_update_in_progress,
    session_agenda_update_in_progress,
    final_memories                      \* memories the final update took

cfgVars == <<interaction_mode, max_turns, memory_threshold>>

VARIABLES
    \* ---- SessionScribe: its two lists as Python objects ----
    lists,                              \* the list objects: object -> items
    new_memories_list,                  \* the object _new_memories names
    all_session_memories_list,          \* the object _all_session_memories names
    memories                            \* what the latest get_session_memories returned

listVars == <<lists, new_memories_list, all_session_memories_list, memories>>

VARIABLES
    \* ---- InterviewSession.run: errors and the clock ----
    loop_error,                         \* an exception left run()'s try block
    final_update_outcome,               \* how run()'s final update ended
    inactivity                          \* minutes since _last_message_time

runVars == <<loop_error, final_update_outcome>>

VARIABLES
    \* ---- SessionScribe._propose_followups ----
    iterations,                         \* iterations of the running call
    response,                           \* the LLM's latest answer
    previous_tool_call,                 \* the questions of the saved tool calls
    similar_questions,                  \* proposed questions that have similar ones
    interview_questions,                \* questions added to the session agenda
    proposed_question_bank,             \* questions added to the proposed bank
    flagged,                            \* questions a search found similar ones for
    llm_calls,                          \* call_engine_async calls of the running call
    error_event                         \* the call recorded the "Exceeded maximum" event

followupVars == <<iterations, response, previous_tool_call, similar_questions,
                  interview_questions, proposed_question_bank, flagged,
                  llm_calls, error_event>>

VARIABLES
    \* ---- BaseAgent._call_engine ----
    call_pc,                            \* "idle", "loop", "returned", "raised"
    attempt,                            \* the loop variable of range(10)
    invocations,                        \* what each invoke_engine call did
    sleeps,                             \* the arguments of the time.sleep calls
    call_result,                        \* the output returned or the exception raised
    \* ---- BaseAgent.handle_tool_calls / handle_tool_calls_async ----
    tool_pc,                            \* "idle", "loop", "returned", "raised"
    raise_error,                        \* the raise_error argument
    parsed_calls,                       \* parse_tool_calls(tool_calls_xml)
    call_index,                         \* the calls of the block handled so far
    event_stream                        \* the events added by the handler

engineVars == <<call_pc, attempt, invocations, sleeps, call_result>>

toolVars == <<tool_pc, raise_error, parsed_calls, call_index, event_stream>>

VARIABLES
    \* ---- SessionAgenda and InterviewSession.__init__ ----
    saved_agendas,                      \* user -> ids of the saved session agendas
    session_id,                         \* user -> id of the user's latest session
    sessions_started,                   \* user -> InterviewSession objects built
    topics,                             \* question id -> question of the agenda
    delete_call                         \* the latest delete_interview_question

agendaVars == <<saved_agendas, session_id, sessions_started, topics, delete_call>>

VARIABLES
    \* ---- SessionScribe._process_qa_pair and its two pipelines ----
    qa_pairs,                           \* the _process_qa_pair tasks created
    notes_lock,                         \* self._notes_lock
    memory_lock,                        \* self._memory_lock
    lock_messages,                      \* the events tagged *_lock_message
    historical_questions,               \* pairs whose question is in the historical bank
    access                              \* the stores the latest pipeline step used

pipelineVars == <<qa_pairs, notes_lock, memory_lock, lock_messages,
                  historical_questions, access>>

VARIABLES
    \* ---- SectionWriter.update_section ----
    writer_iterations,                  \* iterations of the running call
    writer_llm_calls,                   \* call_engine_async calls of the running call
    update_result                       \* the UpdateResult of the latest call

writerVars == <<writer_iterations, writer_llm_calls, update_result>>

agentVars == <<followupVars, engineVars, toolVars, agendaVars, pipelineVars,
               writerVars>>

\* BaseAgent._max_consideration_iterations (MAX_CONSIDERATION_ITERATIONS, "3")
max_consideration_iterations == 3

\* the value of iterations while no call is running
Returned == 0 - 1

NoResponse == [proceed |-> FALSE, questions |-> <<>>, recall |-> FALSE,
               agenda_raises |-> FALSE]

\* no call of _propose_followups has been made
FollowupInit ==
    /\ iterations = Returned
    /\ response = NoResponse
    /\ previous_tool_call = <<>>
    /\ similar_questions = <<>>
    /\ interview_questions = <<>>
    /\ proposed_question_bank = <<>>
    /\ flagged = {}
    /\ llm_calls = 0
    /\ error_event = FALSE

NoOutput == [kind |-> "none", tool_calls |-> <<>>]

\* no call of _call_engine has been made
EngineInit ==
    /\ call_pc = "idle"
    /\ attempt = 0
    /\ invocations = <<>>
    /\ sleeps = <<>>
    /\ call_result = NoOutput

\* no call of handle_tool_calls has been made
ToolInit ==
    /\ tool_pc = "idle"
    /\ raise_error = FALSE
    /\ parsed_calls = <<>>
    /\ call_index = 0
    /\ event_stream = <<>>

\* user_config.get("user_id", "default_user")
Users == {"default_user", "test_user"}

\* no agenda has been saved and no session has been constructed
AgendaInit ==
    /\ saved_agendas = [user \in Users |-> {}]
    /\ session_id = [user \in Users |-> 0]
    /\ sessions_started = [user \in Users |-> 0]
    /\ topics = <<>>
    /\ delete_call = [n |-> 0, question_id |-> <<>>, outcome |-> "none"]

\* asyncio.Lock(): not held, nobody waiting
Unlocked == [holder |-> 0, waiters |-> <<>>]

NoAccess == [pipeline |-> "none", pair |-> 0, reads |-> {}, writes |-> {}]

\* SessionScribe.__init__, lines 40-55: no task, the three locks free
PipelineInit ==
    /\ qa_pairs = <<>>
    /\ notes_lock = Unlocked
    /\ memory_lock = Unlocked
    /\ lock_messages = <<>>
    /\ historical_questions = {}
    /\ access = NoAccess

\* no call of SectionWriter.update_section has been made
NoResult == [success |-> FALSE, message |-> "none"]

WriterInit ==
    /\ writer_iterations = Returned
    /\ writer_llm_calls = 0
    /\ update_result = NoResult

AgentInit ==
    /\ FollowupInit /\ EngineInit /\ ToolInit /\ AgendaInit /\ PipelineInit
    /\ WriterInit

VARIABLES
    \* ---- Biography ----
    root,                               \* the Section tree
    saved,                              \* what biography_<version>.json holds
    write_lock,                         \* _write_lock: the tasks that hold it
    pending_writes,                     \* _pending_writes
    all_writes_complete,                \* _all_writes_complete: is the event set
    \* ---- the callers of the Biography ----
    clock,                              \* datetime.now(), as a count of mutations
    op_count,                           \* calls made so far
    writes,                             \* per task: its call and where it is in it
    save_pc,                            \* position of save()
    save_seen,                          \* the calls that were pending when save() was called
    last_call,                          \* the call whose locked body ran last
    result                              \* and how it ended

VARIABLES
    \* ---- Biography: its files ----
    version,                            \* self.version
    file_name,                          \* the version in self.file_name
    files                               \* version -> what biography_<version>.json holds

fileVars == <<version, file_name, files>>

bioVars == <<root, saved, write_lock, pending_writes, all_writes_complete, clock,
             op_count, writes, save_pc, save_seen, last_call, result, fileVars>>

sessionVars ==
    <<cfgVars, session_in_progress, session_completed, session_timeout,
      chat_history, user_message_count, last_user_message,
      auto_biography_update_in_progress, run_pc, banks_saved, ready, inflight,
      calls, post_result, delivered, interviewer_pending, user_pending,
      last_interviewer_message, pending_tasks, processing_in_progress, qa_tasks,
      new_memories, all_session_memories, biography_update_in_progress,
      session_agenda_update_in_progress, final_memories, listVars, runVars,
      inactivity>>

vars == <<cfgVars, session_in_progress, session_completed, session_timeout,
          chat_history, user_message_count, last_user_message,
          auto_biography_update_in_progress, run_pc, banks_saved, ready, inflight,
          calls, post_result, delivered, interviewer_pending, user_pending,
          last_interviewer_message, pending_tasks, processing_in_progress, qa_tasks,
          new_memories, all_session_memories, biography_update_in_progress,
          session_agenda_update_in_progress, final_memories, bioVars, listVars, agentVars, runVars, inactivity>>

(***************************************************************************)
(* InterviewSession.__init__                                               *)
(***************************************************************************)
Max(a, b) == IF a >= b THEN a ELSE b

\* a check after every User message
CheckEveryMessage(threshold) == 1
\* self._check_interval = max(1, self.memory_threshold // 5)
CheckInterval(threshold) == Max(1, threshold \div 5)

\* self._subscriptions, after the mode-dependent appends
Subscriptions(mode, role) ==
    IF role = "Interviewer"
    THEN IF mode = "api" THEN <<"SessionScribe", "APIParticipant">>
                         ELSE <<"SessionScribe", "User">>
    ELSE IF role = "User" THEN <<"Interviewer", "SessionScribe">>
    ELSE <<>>

Subscribers == {"Interviewer", "SessionScribe", "User", "APIParticipant"}

\* an entry of the loop's queue: a coroutine started with asyncio.create_task
Task(kind, msg, sub, q) == [kind |-> kind, msg |-> msg, sub |-> sub, q |-> q]

\* nothing has been returned
NoList == 0

\* session_scribe.py, lines 41-43: two empty lists
ScribeListsInit ==
    /\ lists = <<<<>>, <<>>>>
    /\ new_memories_list = 1
    /\ all_session_memories_list = 2
    /\ memories = [object |-> NoList, items |-> <<>>]

SessionInit ==
    /\ interaction_mode \in Modes
    /\ max_turns \in TurnCaps
    /\ memory_threshold \in Thresholds
    /\ session_in_progress = TRUE
    /\ session_completed = FALSE
    /\ session_timeout = FALSE
    /\ chat_history = <<>>
    /\ user_message_count = 0
    /\ last_user_message = NoMsg
    /\ auto_biography_update_in_progress = FALSE
    /\ run_pc = "start"
    /\ banks_saved = <<>>
    /\ ready = <<>>
    /\ inflight = <<>>
    /\ calls = 0
    /\ post_result = "none"
    /\ delivered = [s \in Subscribers |-> <<>>]
    /\ interviewer_pending = 0
    /\ user_pending = 0
    /\ last_interviewer_message = NoMsg
    /\ pending_tasks = 0
    /\ processing_in_progress = FALSE
    /\ qa_tasks = <<>>
    /\ new_memories = <<>>
    /\ all_session_memories = <<>>
    /\ AgentInit
    /\ biography_update_in_progress = FALSE
    /\ session_agenda_update_in_progress = FALSE
    /\ final_memories = <<>>
    /\ ScribeListsInit
    /\ loop_error = FALSE
    /\ final_update_outcome = "none"
    /\ inactivity = 0

(***************************************************************************)
(* InterviewSession.add_message_to_chat_history                            *)
(*                                                                         *)
(* The caller's frame: add_message_to_chat_history says what happens to    *)
(* the session's own fields and to the loop's queue; the actions that call *)
(* it say what happens to the caller.                                      *)
(***************************************************************************)
\* how many messages the model lets a session create
PostLimit(mode) == IF mode = "api" THEN MaxApiPosts ELSE MaxPosts

\* "Reject messages if session is not in progress": the guard of lines 264-266
PostAcceptedAlways(in_progress) == TRUE
PostAccepted(in_progress) == in_progress

\* the new task is run before the tasks that are waiting
create_task_first(queue, task) == <<task>> \o queue
\* asyncio.create_task (line 303): the loop runs its tasks in the order in
\* which they were made ready
create_task(queue, task) == Append(queue, task)

\* every type is appended and fanned out
FansOutEveryType(type) == TRUE
\* types that are appended to the chat history and fanned out (lines 293-295)
FansOut(type) == type = "skip" \/ type = "conversation"

\* lines 283-284: a User message sets _last_message_time
ResetsInactivity(role) == role = "User"

add_message_to_chat_history(role, type) ==
    /\ IF ~PostAccepted(session_in_progress)
       THEN \* return
            /\ post_result' = "ignored"
            /\ UNCHANGED <<calls, last_user_message, chat_history, ready,
                           inactivity>>
       ELSE /\ calls < PostLimit(interaction_mode)
            /\ calls' = calls + 1
            /\ inactivity' = IF ResetsInactivity(role) THEN 0 ELSE inactivity
            /\ last_user_message' =
                  IF role = "Interviewer" /\ last_user_message # NoMsg
                  THEN NoMsg ELSE last_user_message
            /\ LET message == [id |-> calls + 1, role |-> role, type |-> type] IN
               IF type # "conversation" /\ chat_history = <<>>
               THEN \* save_feedback_to_csv(self.chat_history[-1], ...): IndexError
                    /\ post_result' = "raised"
                    /\ UNCHANGED <<chat_history, ready>>
               ELSE IF FansOut(type)
               THEN /\ chat_history' = Append(chat_history, message)
                    /\ ready' = create_task(ready, Task("notify", message, "none", NoMsg))
                    /\ post_result' = "returned"
               ELSE \* a like: written to the feedback log only
                    /\ post_result' = "returned"
                    /\ UNCHANGED <<chat_history, ready>>
    /\ UNCHANGED <<cfgVars, session_in_progress, session_completed, session_timeout,
                   user_message_count, auto_biography_update_in_progress, run_pc,
                   banks_saved, inflight, delivered, last_interviewer_message,
                   pending_tasks, processing_in_progress, qa_tasks, new_memories,
                   all_session_memories, biography_update_in_progress,
                   session_agenda_update_in_progress, final_memories, bioVars,
                   listVars, agentVars, runVars>>

\* The Interviewer answers a message it was given with respond_to_user.
\* (Its module is not among the sources; specification, section 4.6.)
InterviewerResponds ==
    /\ interviewer_pending > 0
    /\ interviewer_pending' = interviewer_pending - 1
    /\ add_message_to_chat_history("Interviewer", "conversation")
    /\ UNCHANGED user_pending

\* User.on_message: the input is read and posted (user.py, lines 22-37)
UserResponds ==
    /\ user_pending > 0
    /\ user_pending' = user_pending - 1
    /\ add_message_to_chat_history("User", "conversation")
    /\ UNCHANGED interviewer_pending

\* In API mode the user's messages, skips and likes arrive from the HTTP
\* surface at any time.
ApiUserPosts ==
    /\ interaction_mode = "api"
    /\ \E type \in MessageTypes : add_message_to_chat_history("User", type)
    /\ UNCHANGED <<interviewer_pending, user_pending>>

(***************************************************************************)
(* InterviewSession._notify_participants                                   *)
(***************************************************************************)
\* lines 230-235: one task per subscriber
OnMessageTasks(message, subs) ==
    [i \in 1..Len(subs) |-> Task("on_message", message, subs[i], NoMsg)]

\* lines 218-238, up to `await asyncio.sleep(0)`
NotifyFanOut ==
    /\ ready # <<>>
    /\ Head(ready).kind = "notify"
    /\ LET message == Head(ready).msg
           subs == Subscriptions(interaction_mode, message.role)
           spawned == IF session_in_progress THEN OnMessageTasks(message, subs)
                      ELSE <<>>
       IN ready' = Tail(ready) \o spawned
                     \o <<Task("notify_tail", message, "none", NoMsg)>>
    /\ UNCHANGED <<cfgVars, session_in_progress, session_completed, session_timeout,
                   chat_history, user_message_count, last_user_message,
                   auto_biography_update_in_progress, run_pc, banks_saved, inflight,
                   calls, post_result, delivered, interviewer_pending, user_pending,
                   last_interviewer_message, pending_tasks, processing_in_progress,
                   qa_tasks, new_memories, all_session_memories,
                   biography_update_in_progress, session_agenda_update_in_progress,
                   final_memories, bioVars, listVars, agentVars, runVars, inactivity>>

\* the turn cap is never looked at
MaxTurnsIgnored(cap, count) == FALSE
\* lines 250-252: max_turns is set and the count has reached it
MaxTurnsReached(cap, count) == cap # 0 /\ count >= cap

\* lines 240-258: the bookkeeping for a User message after the yield
NotifyUserBookkeeping ==
    /\ ready # <<>>
    /\ Head(ready).kind = "notify_tail"
    /\ LET message == Head(ready).msg
           count == user_message_count + 1
           check == count % CheckInterval(memory_threshold) = 0
                    /\ ~auto_biography_update_in_progress
       IN IF message.role = "User"
          THEN /\ last_user_message' = message
               /\ user_message_count' = count
               /\ ready' = IF check
                           THEN Append(Tail(ready), Task("check", NoMsg, "none", NoMsg))
                           ELSE Tail(ready)
               /\ session_in_progress' =
                     IF MaxTurnsReached(max_turns, count)
                     THEN FALSE ELSE session_in_progress
          ELSE /\ ready' = Tail(ready)
               /\ UNCHANGED <<last_user_message, user_message_count,
                              session_in_progress>>
    /\ UNCHANGED <<cfgVars, session_completed, session_timeout, chat_history,
                   auto_biography_update_in_progress, run_pc, banks_saved, inflight,
                   calls, post_result, delivered, interviewer_pending, user_pending,
                   last_interviewer_message, pending_tasks, processing_in_progress,
                   qa_tasks, new_memories, all_session_memories,
                   biography_update_in_progress, session_agenda_update_in_progress,
                   final_memories, bioVars, listVars, agentVars, runVars, inactivity>>

(***************************************************************************)
(* Participant.on_message; SessionScribe.on_message is lines 85-100 of     *)
(* session_scribe.py                                                       *)
(***************************************************************************)
OnMessage ==
    /\ ready # <<>>
    /\ Head(ready).kind = "on_message"
    /\ LET message == Head(ready).msg
           sub == Head(ready).sub
           pair == sub = "SessionScribe" /\ message.role = "User"
                   /\ last_interviewer_message # NoMsg
       IN /\ delivered' = [delivered EXCEPT ![sub] = Append(@, message.id)]
          /\ last_interviewer_message' =
                IF sub # "SessionScribe" THEN last_interviewer_message
                ELSE IF message.role = "Interviewer" THEN message
                ELSE IF pair THEN NoMsg
                ELSE last_interviewer_message
          /\ ready' = IF pair
                      THEN Append(Tail(ready),
                                  Task("qa", message, "none", last_interviewer_message))
                      ELSE Tail(ready)
          /\ interviewer_pending' = IF sub = "Interviewer" THEN interviewer_pending + 1
                                    ELSE interviewer_pending
          /\ user_pending' = IF sub = "User" THEN user_pending + 1 ELSE user_pending
    /\ UNCHANGED <<cfgVars, session_in_progress, session_completed, session_timeout,
                   chat_history, user_message_count, last_user_message,
                   auto_biography_update_in_progress, run_pc, banks_saved, inflight,
                   calls, post_result, pending_tasks, processing_in_progress,
                   qa_tasks, new_memories, all_session_memories,
                   biography_update_in_progress, session_agenda_update_in_progress,
                   final_memories, bioVars, listVars, agentVars, runVars, inactivity>>

\* the failure takes the other on_message tasks of the message with it
SiblingsCancelled(queue) ==
    SelectSeq(Tail(queue),
              LAMBDA t : ~(t.kind = "on_message" /\ t.msg = Head(queue).msg))
\* the exception stays in the task that raised it (lines 230-238: the tasks
\* are created and never awaited or gathered)
TaskFailed(queue) == Tail(queue)

\* a subscriber's on_message raises as it is started
OnMessageRaises ==
    /\ ready # <<>>
    /\ Head(ready).kind = "on_message"
    /\ delivered' = [delivered EXCEPT ![Head(ready).sub] =
                                        Append(@, Head(ready).msg.id)]
    /\ ready' = TaskFailed(ready)
    /\ UNCHANGED <<cfgVars, session_in_progress, session_completed, session_timeout,
                   chat_history, user_message_count, last_user_message,
                   auto_biography_update_in_progress, run_pc, banks_saved, inflight,
                   calls, post_result, interviewer_pending, user_pending,
                   last_interviewer_message, pending_tasks, processing_in_progress,
                   qa_tasks, new_memories, all_session_memories,
                   biography_update_in_progress, session_agenda_update_in_progress,
                   final_memories, bioVars, listVars, agentVars, runVars, inactivity>>

(***************************************************************************)
(* SessionScribe: task tracking and the memory lists                       *)
(***************************************************************************)
\* _process_qa_pair up to its gather: _increment_pending_tasks (lines 102-104)
ProcessQaPair ==
    /\ ready # <<>>
    /\ Head(ready).kind = "qa"
    /\ ready' = Tail(ready)
    /\ pending_tasks' = pending_tasks + 1
    /\ processing_in_progress' = TRUE
    /\ qa_tasks' = Append(qa_tasks, [q |-> Head(ready).q.id, a |-> Head(ready).msg.id,
                                     memory_written |-> FALSE])
    /\ UNCHANGED <<cfgVars, session_in_progress, session_completed, session_timeout,
                   chat_history, user_message_count, last_user_message,
                   auto_biography_update_in_progress, run_pc, banks_saved, inflight,
                   calls, post_result, delivered, interviewer_pending, user_pending,
                   last_interviewer_message, new_memories, all_session_memories,
                   biography_update_in_progress, session_agenda_update_in_progress,
                   final_memories, bioVars, listVars, agentVars, runVars, inactivity>>

\* the ids that n new memories get
Minted(n) == [i \in 1..n |-> Len(all_session_memories) + i]

\* how many memories the answer to one Q/A pair may yield
BatchSizes(threshold) == {0, 1, threshold}

\* _write_memory_and_question_bank: the LLM has answered and handle_tool_calls
\* runs every update_memory_bank call of the answer, each calling back
\* _add_new_memory (lines 451-454).  memory_lock lets the pairs through in order.
WriteMemoryBank ==
    \E i \in 1..Len(qa_tasks), n \in BatchSizes(memory_threshold) :
        /\ ~qa_tasks[i].memory_written
        /\ \A j \in 1..(i - 1) : qa_tasks[j].memory_written
        /\ qa_tasks' = [qa_tasks EXCEPT ![i].memory_written = TRUE]
        /\ new_memories' = new_memories \o Minted(n)
        /\ all_session_memories' = all_session_memories \o Minted(n)
        /\ UNCHANGED <<cfgVars, session_in_progress, session_completed,
                       session_timeout, chat_history, user_message_count,
                       last_user_message, auto_biography_update_in_progress, run_pc,
                       banks_saved, ready, inflight, calls, post_result, delivered,
                       interviewer_pending, user_pending, last_interviewer_message,
                       pending_tasks, processing_in_progress,
                       biography_update_in_progress,
                       session_agenda_update_in_progress, final_memories, bioVars, listVars, agentVars, runVars, inactivity>>

\* a decrement that lowers the flag whatever the counter says
CounterAlwaysDrained(pending) == TRUE
\* line 481: `if self._pending_tasks <= 0`, after the decrement
CounterDrained(pending) == pending - 1 <= 0

\* _process_qa_pair's finally: _decrement_pending_tasks (lines 477-483)
QaPairDone ==
    \E i \in 1..Len(qa_tasks) :
        /\ qa_tasks[i].memory_written
        /\ qa_tasks' = SubSeq(qa_tasks, 1, i - 1) \o SubSeq(qa_tasks, i + 1, Len(qa_tasks))
        /\ pending_tasks' = IF CounterDrained(pending_tasks) THEN 0
                            ELSE pending_tasks - 1
        /\ processing_in_progress' = IF CounterDrained(pending_tasks) THEN FALSE
                                     ELSE processing_in_progress
        /\ UNCHANGED <<cfgVars, session_in_progress, session_completed,
                       session_timeout, chat_history, user_message_count,
                       last_user_message, auto_biography_update_in_progress, run_pc,
                       banks_saved, ready, inflight, calls, post_result, delivered,
                       interviewer_pending, user_pending, last_interviewer_message,
                       new_memories, all_session_memories,
                       biography_update_in_progress,
                       session_agenda_update_in_progress, final_memories, bioVars, listVars, agentVars, runVars, inactivity>>

(***************************************************************************)
(* BiographyOrchestrator.  Its module is not among the sources: the two    *)
(* in-progress flags and the wait of the final update follow the           *)
(* specification (sections 4.8 and 5).                                     *)
(***************************************************************************)
\* update_biography_with_memories raises its flag on entry ...
OrchestratorUpdateBegins == TRUE
\* ... and lowers it on every way out
OrchestratorUpdateEnds == FALSE

\* "if an incremental update is running when the session ends, the final
\* update waits for it": final_update_biography_and_agenda starts its work
\* once the incremental update's in-progress flag is down
FinalUpdateMayStart(in_progress) == ~in_progress

(***************************************************************************)
(* InterviewSession._check_and_trigger_biography_update                    *)
(***************************************************************************)
\* lines 416-420: the early return
SchedulerSkips(auto, in_progress, orchestrator) ==
    auto \/ ~in_progress \/ orchestrator

\* lines 465-471: the flag after the try block, whatever its outcome
AutoFlagKeptOnError(outcome) == outcome = "raised"
AutoFlagAfterUpdate(outcome) == FALSE

\* a scheduler that neither looks at the in-progress flags nor raises them
CheckAndTriggerWithoutFlags ==
    /\ ready # <<>>
    /\ Head(ready).kind = "check"
    /\ ready' = Tail(ready)
    /\ IF ~session_in_progress \/ Len(new_memories) < memory_threshold
       THEN UNCHANGED <<new_memories, inflight>>
       ELSE /\ new_memories' = <<>>
            /\ inflight' = Append(inflight, new_memories)
    /\ UNCHANGED <<cfgVars, session_in_progress, session_completed, session_timeout,
                   chat_history, user_message_count, last_user_message, run_pc,
                   banks_saved, calls, post_result, delivered, interviewer_pending,
                   user_pending, last_interviewer_message, pending_tasks,
                   processing_in_progress, qa_tasks, all_session_memories,
                   auto_biography_update_in_progress, biography_update_in_progress,
                   session_agenda_update_in_progress, final_memories, bioVars, listVars, agentVars, runVars, inactivity>>

\* a draining call that leaves the unprocessed memories where they are
KeepProcessed(unprocessed) == unprocessed
\* session_scribe.py lines 435-440: `self._new_memories = []`
ClearProcessed(unprocessed) == <<>>

\* From the early return to the await of update_biography_with_memories
\* nothing suspends: get_session_memories(wait_for_processing=False) and
\* _update_conversation_summary hold no await that is reached.
CheckAndTriggerBiographyUpdate ==
    /\ ready # <<>>
    /\ Head(ready).kind = "check"
    /\ ready' = Tail(ready)
    /\ IF SchedulerSkips(auto_biography_update_in_progress, session_in_progress,
                         biography_update_in_progress)
          \/ Len(new_memories) < memory_threshold
       THEN UNCHANGED <<auto_biography_update_in_progress, new_memories, inflight,
                        biography_update_in_progress>>
       ELSE /\ auto_biography_update_in_progress' = TRUE
            \* get_session_memories(clear_processed=True, wait_for_processing=False)
            /\ new_memories' = ClearProcessed(new_memories)
            /\ inflight' = Append(inflight, new_memories)
            /\ biography_update_in_progress' = OrchestratorUpdateBegins
    /\ UNCHANGED <<cfgVars, session_in_progress, session_completed, session_timeout,
                   chat_history, user_message_count, last_user_message, run_pc,
                   banks_saved, calls, post_result, delivered, interviewer_pending,
                   user_pending, last_interviewer_message, pending_tasks,
                   processing_in_progress, qa_tasks, all_session_memories,
                   session_agenda_update_in_progress, final_memories, bioVars, listVars, agentVars, runVars, inactivity>>

RemoveAt(seq, i) == SubSeq(seq, 1, i - 1) \o SubSeq(seq, i + 1, Len(seq))

\* update_biography_with_memories returns or raises; lines 455-471
AutoUpdateEnds(outcome) ==
    /\ \E i \in 1..Len(inflight) : inflight' = RemoveAt(inflight, i)
    /\ biography_update_in_progress' = OrchestratorUpdateEnds
    /\ auto_biography_update_in_progress' = AutoFlagAfterUpdate(outcome)
    /\ UNCHANGED <<cfgVars, session_in_progress, session_completed, session_timeout,
                   chat_history, user_message_count, last_user_message, run_pc,
                   banks_saved, ready, calls, post_result, delivered,
                   interviewer_pending, user_pending, last_interviewer_message,
                   pending_tasks, processing_in_progress, qa_tasks, new_memories,
                   all_session_memories, session_agenda_update_in_progress,
                   final_memories, bioVars, listVars, agentVars, runVars, inactivity>>

AutoUpdateReturns == AutoUpdateEnds("returned")
AutoUpdateRaises == AutoUpdateEnds("raised")

(***************************************************************************)
(* InterviewSession.end_session and _signal_handler                        *)
(***************************************************************************)
SessionStops ==
    /\ session_in_progress
    /\ session_in_progress' = FALSE
    /\ UNCHANGED <<cfgVars, session_completed, session_timeout, chat_history,
                   user_message_count, last_user_message,
                   auto_biography_update_in_progress, run_pc, banks_saved, ready,
                   inflight, calls, post_result, delivered, interviewer_pending,
                   user_pending, last_interviewer_message, pending_tasks,
                   processing_in_progress, qa_tasks, new_memories,
                   all_session_memories, biography_update_in_progress,
                   session_agenda_update_in_progress, final_memories, bioVars, listVars, agentVars, runVars, inactivity>>

\* lines 514-516; called by the Interviewer's end_conversation tool and, in API
\* mode, by the HTTP surface
end_session ==
    /\ interviewer_pending > 0 \/ interaction_mode = "api"
    /\ SessionStops

\* lines 524-530; installed in agent mode only (lines 203-205)
SignalHandler ==
    /\ interaction_mode = "agent"
    /\ SessionStops

(***************************************************************************)
(* InterviewSession.run                                                    *)
(***************************************************************************)
\* what a step of run() leaves alone apart from its own fields
RunFrame ==
    UNCHANGED <<cfgVars, chat_history, user_message_count, last_user_message,
                auto_biography_update_in_progress, ready, inflight, calls,
                post_result, delivered, user_pending,
                last_interviewer_message, pending_tasks, processing_in_progress,
                qa_tasks, all_session_memories, bioVars, listVars, agentVars, inactivity>>

\* lines 318-324: in the modes with a user the Interviewer is given None and
\* run() waits for it
RunStart ==
    /\ run_pc = "start"
    /\ run_pc' = "monitor"
    /\ session_in_progress' = TRUE
    /\ interviewer_pending' = IF interaction_mode # "api" THEN interviewer_pending + 1
                              ELSE interviewer_pending
    /\ RunFrame
    /\ UNCHANGED <<session_completed, session_timeout, banks_saved, new_memories,
                   biography_update_in_progress, session_agenda_update_in_progress,
                   final_memories, runVars>>

\* lines 327-328: the loop condition
Monitoring == session_in_progress \/ processing_in_progress

\* lines 368-371: the condition of the wait after the final update
OrchestratorBusy ==
    biography_update_in_progress \/ session_agenda_update_in_progress

\* the session is marked completed and no bank is written
CompletedWithoutSaving ==
    /\ banks_saved' = banks_saved
    /\ session_completed' = TRUE

\* lines 386-399: the inner finally, which nothing suspends
SaveBanks ==
    /\ banks_saved' = <<"memory_bank", "historical_question_bank">>
    /\ session_completed' = TRUE

\* lines 351-380, from the outer finally to the first await that suspends:
\* the final update's wait when the mode asks for it, else the wait for the
\* orchestrator's flags, else the saves
PostInterview(timed_out) ==
    /\ session_in_progress' = FALSE
    /\ IF interaction_mode # "api" \/ timed_out
       THEN /\ run_pc' = "final_update"
            /\ UNCHANGED <<banks_saved, session_completed>>
       ELSE IF OrchestratorBusy
       THEN /\ run_pc' = "wait_update"
            /\ UNCHANGED <<banks_saved, session_completed>>
       ELSE /\ run_pc' = "done"
            /\ SaveBanks

\* the loop condition is false after a sleep
RunLoopExit ==
    /\ run_pc = "monitor"
    /\ ~Monitoring
    /\ PostInterview(session_timeout)
    /\ RunFrame
    /\ UNCHANGED <<session_timeout, new_memories, biography_update_in_progress,
                   session_agenda_update_in_progress, final_memories,
                   interviewer_pending, runVars>>

\* lines 323-324 and 345-348: the Interviewer's first turn, which run() awaits,
\* raises; the exception is logged and raised again, and the finally of line
\* 351 runs before it leaves run()
RunLoopRaises ==
    /\ run_pc = "monitor"
    /\ interaction_mode # "api"
    /\ interviewer_pending > 0
    /\ calls = 0
    /\ interviewer_pending' = interviewer_pending - 1
    /\ loop_error' = TRUE
    /\ PostInterview(session_timeout)
    /\ RunFrame
    /\ UNCHANGED <<session_timeout, new_memories, biography_update_in_progress,
                   session_agenda_update_in_progress, final_memories,
                   final_update_outcome>>

\* lines 331-343: the inactivity window has passed
RunTimeout ==
    /\ run_pc = "monitor"
    /\ Monitoring
    /\ session_timeout' = TRUE
    /\ PostInterview(TRUE)
    /\ RunFrame
    /\ UNCHANGED <<new_memories, biography_update_in_progress,
                   session_agenda_update_in_progress, final_memories,
                   interviewer_pending, runVars>>

\* the check of lines 332-333 always succeeds
WindowAlwaysPassed == TRUE
\* lines 332-333: datetime.now() - _last_message_time > timeout_minutes
InactivityWindowPassed == inactivity > timeout_minutes

\* the timeout taken when the clock says so
RunTimeoutAfterWindow ==
    /\ InactivityWindowPassed
    /\ RunTimeout

\* a minute passes; beyond the window the clock need not be followed
Tick ==
    /\ inactivity <= timeout_minutes
    /\ inactivity' = inactivity + 1
    /\ UNCHANGED <<cfgVars, session_in_progress, session_completed, session_timeout,
                   chat_history, user_message_count, last_user_message,
                   auto_biography_update_in_progress, run_pc, banks_saved, ready,
                   inflight, calls, post_result, delivered, interviewer_pending,
                   user_pending, last_interviewer_message, pending_tasks,
                   processing_in_progress, qa_tasks, new_memories,
                   all_session_memories, biography_update_in_progress,
                   session_agenda_update_in_progress, final_memories, bioVars,
                   listVars, agentVars, runVars>>

\* how the wait for the Scribe can end
Drains == {"drained", "timeout"}

\* get_session_memories(wait_for_processing=True), session_scribe.py lines
\* 406-421: the wait ends when processing_in_progress is down, or after 300
\* seconds
ScribeWaitOver(drain, processing) == drain = "timeout" \/ ~processing

\* lines 365-366 and 487-500: the orchestrator's final update starts its
\* work; it takes what the Scribe still holds
FinalUpdateStarts(drain) ==
    /\ run_pc = "final_update"
    /\ FinalUpdateMayStart(biography_update_in_progress)
    /\ ScribeWaitOver(drain, processing_in_progress)
    /\ run_pc' = "final_running"
    /\ biography_update_in_progress' = TRUE
    /\ session_agenda_update_in_progress' = TRUE
    /\ final_memories' = new_memories
    /\ new_memories' = <<>>
    /\ RunFrame
    /\ UNCHANGED <<session_in_progress, session_completed, session_timeout,
                   banks_saved, interviewer_pending, runVars>>

\* how the final update can end: it returns; the biography's save raised and
\* SectionWriter.save_biography returned the error as a string
\* (section_writer.py, lines 174-182); it raised
UpdateOutcomes == {"returned", "save_failed", "raised"}

\* the final update returns or raises: its flags are down, so the wait of
\* lines 368-380 is over at once and the banks are saved.  An exception is
\* logged by the handler of lines 382-385 and goes no further.
FinalUpdateEnds(outcome) ==
    /\ run_pc = "final_running"
    /\ run_pc' = "done"
    /\ final_update_outcome' = outcome
    /\ biography_update_in_progress' = FALSE
    /\ session_agenda_update_in_progress' = FALSE
    /\ SaveBanks
    /\ RunFrame
    /\ UNCHANGED <<session_in_progress, session_timeout, new_memories,
                   final_memories, interviewer_pending, loop_error>>

\* lines 368-380: the flags are down after a sleep, or 300 seconds have passed
RunWaitUpdate ==
    /\ run_pc = "wait_update"
    /\ run_pc' = "done"
    /\ SaveBanks
    /\ RunFrame
    /\ UNCHANGED <<session_in_progress, session_timeout, new_memories,
                   biography_update_in_progress, session_agenda_update_in_progress,
                   final_memories, interviewer_pending, runVars>>

\* how run() has ended: the exception of the try block is raised again once
\* the finally is over (lines 345-348); otherwise run() returns
RunOutcome ==
    IF run_pc # "done" THEN "running"
    ELSE IF loop_error THEN "raised" ELSE "returned"

(***************************************************************************)
(* Section (biography.py, lines 9-72)                                      *)
(*                                                                         *)
(* A title is held with its first word already split at the dots: number   *)
(* is the sequence of its numeric components, empty when the first word is *)
(* not a dotted number.  A path is the sequence of its '/'-separated       *)
(* titles; a content is the sequence of its words, a citation being the    *)
(* word "[MEM_n]".                                                         *)
(***************************************************************************)
Title(number, name) == [number |-> number, name |-> name]

RootTitle == Title(<<>>, "Biography of user")
EarlyLife == Title(<<1>>, "Early Life")
Career2 == Title(<<2>>, "Career")
Career3 == Title(<<3>>, "Career")
Childhood == Title(<<1, 1>>, "Childhood")
Details == Title(<<1, 1, 1>>, "Details")
Deeper == Title(<<1, 1, 1, 1>>, "Deeper")
Unnumbered == Title(<<>>, "Career")

\* None, for a title, a content and a section that was not found
NoTitle == Title(<<>>, "None")
NoContent == <<"None">>
NoLoc == <<0>>

\* the words that r'\[(MEM_[\w-]+)\]' matches, with the group it captures
CitedId == ("[MEM_1]" :> "MEM_1") @@ ("[MEM_2]" :> "MEM_2")

Range(seq) == {seq[i] : i \in 1..Len(seq)}
Front(seq) == SubSeq(seq, 1, Len(seq) - 1)
Last(seq) == seq[Len(seq)]

\* Section.extract_memory_ids: the ids cited, once each, in order of appearance
RECURSIVE extract_memory_ids(_)
extract_memory_ids(content) ==
    IF content = <<>> THEN <<>>
    ELSE LET found == extract_memory_ids(Front(content))
             word == Last(content)
         IN IF word \in DOMAIN CitedId /\ CitedId[word] \notin Range(found)
            THEN Append(found, CitedId[word])
            ELSE found

\* Section.update_memory_ids (lines 20-25): extend, never remove
MemoryIdsExtended(memory_ids, found_ids) ==
    memory_ids \o SelectSeq(found_ids, LAMBDA id : id \notin Range(memory_ids))

update_memory_ids(section) ==
    [section EXCEPT !.memory_ids =
        MemoryIdsExtended(@, extract_memory_ids(section.content))]

\* str(uuid.uuid4()) of line 11: a value no other section is given; sections
\* made at the same time have different titles
Uuid4(title, now) == <<now, title>>

\* Section.__init__ (lines 10-18)
Section(title, content, now) ==
    update_memory_ids([id |-> Uuid4(title, now), title |-> title,
                       content |-> content, created_at |-> now, last_edit |-> now,
                       subsections |-> <<>>, memory_ids |-> <<>>])

\* re.sub(r'\[([\w-]+)\]', '', content) of get_section (lines 328-329)
HideMemoryLinks(content) == SelectSeq(content, LAMBDA word : word \notin DOMAIN CitedId)

(***************************************************************************)
(* subsections is a dict keyed by title: a sequence in the dict's order    *)
(***************************************************************************)
IndexOfKey(subsections, title) ==
    IF \E i \in 1..Len(subsections) : subsections[i].title = title
    THEN CHOOSE i \in 1..Len(subsections) : subsections[i].title = title
    ELSE 0

\* subsections[section.title] = section
DictSet(subsections, section) ==
    LET i == IndexOfKey(subsections, section.title)
    IN IF i = 0 THEN Append(subsections, section)
       ELSE [subsections EXCEPT ![i] = section]

RECURSIVE SectionAt(_, _)
SectionAt(section, loc) ==
    IF loc = <<>> THEN section
    ELSE SectionAt(section.subsections[Head(loc)], Tail(loc))

RECURSIVE Replaced(_, _, _)
Replaced(section, loc, new) ==
    IF loc = <<>> THEN new
    ELSE [section EXCEPT !.subsections[Head(loc)] = Replaced(@, Tail(loc), new)]

RECURSIVE Locs(_, _)
Locs(section, loc) ==
    {loc} \cup UNION {Locs(section.subsections[i], Append(loc, i)) :
                        i \in 1..Len(section.subsections)}

(***************************************************************************)
(* Section.to_dict and Section.from_dict (lines 27-47); json.dump and      *)
(* json.load keep strings, lists and the order of a dict's keys            *)
(***************************************************************************)
RECURSIVE to_dict(_)
to_dict(section) ==
    [id |-> section.id,
     title |-> section.title,
     content |-> section.content,
     created_at |-> section.created_at,
     last_edit |-> section.last_edit,
     memory_ids |-> section.memory_ids,
     subsections |-> [i \in 1..Len(section.subsections) |->
                        [k |-> section.subsections[i].title,
                         v |-> to_dict(section.subsections[i])]]]

\* cls(data["title"]) alone: what from_dict would give if it set no field
from_dict_constructor(data, now) == Section(data.title, <<>>, now)

RECURSIVE from_dict(_, _)
from_dict(data, now) ==
    [Section(data.title, <<>>, now) EXCEPT
        !.id = data.id,
        !.content = data.content,
        !.created_at = data.created_at,
        !.last_edit = data.last_edit,
        !.memory_ids = data.memory_ids,
        !.subsections = [i \in 1..Len(data.subsections) |->
                            from_dict(data.subsections[i].v, now)]]

(***************************************************************************)
(* Biography: the path rules (lines 185-252)                               *)
(***************************************************************************)
\* child_num.startswith(f"{parent_num}.")
StartsWithDotted(child_num, parent_num) ==
    /\ Len(child_num) > Len(parent_num)
    /\ SubSeq(child_num, 1, Len(parent_num)) = parent_num

\* _is_valid_subsection_number (lines 210-231)
is_valid_subsection_number(parent, child) ==
    IF Len(parent.number) = 1
    THEN Len(child.number) = 2 /\ StartsWithDotted(child.number, parent.number)
    ELSE IF Len(parent.number) > 1
    THEN Len(child.number) = 3 /\ StartsWithDotted(child.number, parent.number)
    ELSE FALSE

\* the deepest path is_valid_path_format lets through (line 196)
MaxDepth == 3

\* is_valid_path_format (lines 185-208)
is_valid_path_format(path) ==
    \/ path = <<>>
    \/ /\ Len(path) <= MaxDepth
       /\ Len(path[1].number) = 1
       /\ \A i \in 2..Len(path) : is_valid_subsection_number(path[i - 1], path[i])

\* tuple comparison, as sorted() applies it to the keys
RECURSIVE TupleLess(_, _)
TupleLess(a, b) ==
    IF b = <<>> THEN FALSE
    ELSE IF a = <<>> THEN TRUE
    ELSE IF Head(a) # Head(b) THEN Head(a) < Head(b)
    ELSE TupleLess(Tail(a), Tail(b))

\* get_sort_key (lines 244-248)
get_sort_key(title) == title.number

RECURSIVE InsertSorted(_, _)
InsertSorted(sorted, section) ==
    IF sorted = <<>> THEN <<section>>
    ELSE IF TupleLess(get_sort_key(section.title), get_sort_key(Head(sorted).title))
    THEN <<section>> \o sorted
    ELSE <<Head(sorted)>> \o InsertSorted(Tail(sorted), section)

\* _sort_sections (lines 242-252): sorted() is stable
RECURSIVE sort_sections(_)
sort_sections(sections) ==
    IF sections = <<>> THEN <<>>
    ELSE InsertSorted(sort_sections(Front(sections)), Last(sections))

(***************************************************************************)
(* Biography: finding sections (lines 254-331)                             *)
(***************************************************************************)
\* _find_parent: depth first over the keys
RECURSIVE find_parent_in(_, _, _, _)
find_parent_in(section, title, loc, i) ==
    IF i > Len(section.subsections) THEN NoLoc
    ELSE IF section.subsections[i].title = title THEN loc
    ELSE LET parent == find_parent_in(section.subsections[i], title, Append(loc, i), 1)
         IN IF parent # NoLoc THEN parent
            ELSE find_parent_in(section, title, loc, i + 1)

find_parent(tree, title) == find_parent_in(tree, title, <<>>, 1)

\* _get_section_by_path, for a path of valid format
RECURSIVE get_section_by_path_from(_, _, _)
get_section_by_path_from(current, path, loc) ==
    IF path = <<>> THEN loc
    ELSE LET i == IndexOfKey(current.subsections, Head(path))
         IN IF i = 0 THEN NoLoc
            ELSE get_section_by_path_from(current.subsections[i], Tail(path),
                                          Append(loc, i))

get_section_by_path(tree, path) == get_section_by_path_from(tree, path, <<>>)

\* _get_section_by_title: depth first over the titles, the root first
RECURSIVE get_section_by_title_from(_, _, _, _)
get_section_by_title_from(section, title, loc, i) ==
    IF i = 0
    THEN IF section.title = title THEN loc
         ELSE get_section_by_title_from(section, title, loc, 1)
    ELSE IF i > Len(section.subsections) THEN NoLoc
    ELSE LET found == get_section_by_title_from(section.subsections[i], title,
                                                Append(loc, i), 0)
         IN IF found # NoLoc THEN found
            ELSE get_section_by_title_from(section, title, loc, i + 1)

get_section_by_title(tree, title) == get_section_by_title_from(tree, title, <<>>, 0)

\* a call names its section by path or by title
ByPath(path) == [by |-> "path", path |-> path, title |-> NoTitle]
ByTitle(title) == [by |-> "title", path |-> <<>>, title |-> title]

\* get_section (lines 306-331) raises ValueError on a path of invalid format
GetSectionRaises(target) == target.by = "path" /\ ~is_valid_path_format(target.path)

\* get_section: where the section is
get_section(tree, target) ==
    IF target.by = "path" THEN get_section_by_path(tree, target.path)
    ELSE get_section_by_title(tree, target.title)

(***************************************************************************)
(* Biography._get_next_version (lines 107-134)                             *)
(***************************************************************************)
\* the directory holds the files biography_<version>.json
get_next_version(directory) ==
    IF DOMAIN directory = {} THEN 1
    ELSE (CHOOSE v \in DOMAIN directory : \A w \in DOMAIN directory : w <= v) + 1

(***************************************************************************)
(* Biography: the locked bodies of the mutations.  Each gives the tree it  *)
(* leaves, how it ended, where the section it names was and where it is.   *)
(***************************************************************************)
Outcome(tree, status, value, was, loc) ==
    [root |-> tree, status |-> status, value |-> value, was |-> was, loc |-> loc]

Call(op, target, content, new_title) ==
    [op |-> op, target |-> target, content |-> content, new_title |-> new_title]

NoCall == Call("none", ByPath(<<>>), NoContent, NoTitle)
NoOutcome == [status |-> "none", value |-> "none", was |-> NoLoc, loc |-> NoLoc]

\* lines 363-376: get or create the parents, set the new section, sort
RECURSIVE AddUnder(_, _, _, _)
AddUnder(current, parts, content, now) ==
    IF Len(parts) = 1
    THEN [current EXCEPT !.subsections =
             sort_sections(DictSet(@, Section(parts[1], content, now)))]
    ELSE LET with_parent ==
                 IF IndexOfKey(current.subsections, Head(parts)) = 0
                 THEN Append(current.subsections, Section(Head(parts), <<>>, now))
                 ELSE current.subsections
             i == IndexOfKey(with_parent, Head(parts))
         IN [current EXCEPT !.subsections =
                [with_parent EXCEPT ![i] = AddUnder(@, Tail(parts), content, now)]]

\* add_section (lines 346-380)
AddSectionBody(tree, path, content, now) ==
    IF path = <<>> \/ ~is_valid_path_format(path)
    THEN Outcome(tree, "raised", "ValueError", NoLoc, NoLoc)
    ELSE LET after == AddUnder(tree, path, content, now)
         IN Outcome(after, "returned", "Section", get_section_by_path(tree, path),
                    get_section_by_path(after, path))

\* lines 411-426: the new title, under the parent _find_parent names
Retitled(tree, old_title, new_title, loc) ==
    LET parent == find_parent(tree, old_title)
    IN IF parent # NoLoc
       THEN LET p == SectionAt(tree, parent)
                i == IndexOfKey(p.subsections, old_title)
                section == [p.subsections[i] EXCEPT !.title = new_title]
                popped == SubSeq(p.subsections, 1, i - 1)
                            \o SubSeq(p.subsections, i + 1, Len(p.subsections))
            IN Replaced(tree, parent,
                        [p EXCEPT !.subsections = sort_sections(DictSet(popped, section))])
       ELSE Replaced(tree, loc, [SectionAt(tree, loc) EXCEPT !.title = new_title])

\* where the section that update_section returns is after a change of title
RetitledLoc(tree, after, old_title, new_title, loc) ==
    LET parent == find_parent(tree, old_title)
    IN IF parent # NoLoc
       THEN Append(parent, IndexOfKey(SectionAt(after, parent).subsections, new_title))
       ELSE loc

\* update_section (lines 382-429)
UpdateSectionBody(tree, target, content, new_title, now) ==
    IF target.by = "path" /\ target.path = <<>>
    THEN LET edited == IF content # NoContent
                       THEN \* lines 396-397: content and last_edit, nothing else
                            [tree EXCEPT !.content = content, !.last_edit = now]
                       ELSE tree
             titled == IF new_title # NoTitle
                       THEN [edited EXCEPT !.title = new_title] ELSE edited
         IN Outcome(titled, "returned", "Section", <<>>, <<>>)
    ELSE IF GetSectionRaises(target)
    THEN Outcome(tree, "raised", "ValueError", NoLoc, NoLoc)
    ELSE LET loc == get_section(tree, target)
         IN IF loc = NoLoc
            THEN Outcome(tree, "returned", "None", NoLoc, NoLoc)
            ELSE LET section == SectionAt(tree, loc)
                     edited == IF content # NoContent
                               THEN update_memory_ids(
                                        [section EXCEPT !.content = content,
                                                        !.last_edit = now])
                               ELSE section
                     tree1 == Replaced(tree, loc, edited)
                 IN IF new_title # NoTitle /\ new_title # section.title
                    THEN LET after == Retitled(tree1, section.title, new_title, loc)
                         IN Outcome(after, "returned", "Section", loc,
                                    RetitledLoc(tree1, after, section.title,
                                                new_title, loc))
                    ELSE Outcome(tree1, "returned", "Section", loc, loc)

\* line 459: del parent.subsections[title]
DelSubsection(tree, parent, i) ==
    LET p == SectionAt(tree, parent)
    IN Replaced(tree, parent,
                [p EXCEPT !.subsections = SubSeq(@, 1, i - 1)
                                            \o SubSeq(@, i + 1, Len(@))])

\* delete_section (lines 431-463); its get_section hides the memory links of
\* the section it finds
DeleteSectionBody(tree, target) ==
    IF target.by = "path" /\ target.path = <<>>
    THEN Outcome(tree, "raised", "ValueError", NoLoc, NoLoc)
    ELSE IF GetSectionRaises(target)
    THEN Outcome(tree, "raised", "ValueError", NoLoc, NoLoc)
    ELSE LET loc == get_section(tree, target)
         IN IF loc = NoLoc
            THEN Outcome(tree, "returned", "False", NoLoc, NoLoc)
            ELSE LET section == SectionAt(tree, loc)
                     tree1 == Replaced(tree, loc,
                                  [section EXCEPT !.content = HideMemoryLinks(@)])
                     parent == find_parent(tree1, section.title)
                 IN IF loc = <<>>
                    THEN Outcome(tree1, "raised", "ValueError", loc, loc)
                    ELSE IF parent # NoLoc
                    THEN Outcome(DelSubsection(tree1, parent,
                                    IndexOfKey(SectionAt(tree1, parent).subsections,
                                               section.title)),
                                 "returned", "True", loc, NoLoc)
                    ELSE Outcome(tree1, "returned", "False", loc, loc)

\* get_section as its callers see it (lines 306-331): line 329 assigns the
\* stripped content to the section that is in the tree, which is the object
\* returned
GetSectionBody(tree, target, hide_memory_links) ==
    IF GetSectionRaises(target)
    THEN Outcome(tree, "raised", "ValueError", NoLoc, NoLoc)
    ELSE LET loc == get_section(tree, target)
         IN IF loc = NoLoc
            THEN Outcome(tree, "returned", "None", NoLoc, NoLoc)
            ELSE IF hide_memory_links
            THEN Outcome(Replaced(tree, loc,
                             [SectionAt(tree, loc) EXCEPT
                                 !.content = HideMemoryLinks(@)]),
                         "returned", "Section", loc, loc)
            ELSE Outcome(tree, "returned", "Section", loc, loc)

\* the locked body of a call
Body(tree, call, now) ==
    IF call.op = "add_section"
    THEN AddSectionBody(tree, call.target.path, call.content, now)
    ELSE IF call.op = "update_section"
    THEN UpdateSectionBody(tree, call.target, call.content, call.new_title, now)
    ELSE DeleteSectionBody(tree, call.target)

(***************************************************************************)
(* The calls the callers make                                              *)
(***************************************************************************)
Cited == <<"X", "[MEM_1]">>
Uncited == <<"Y">>
CitedTwice == <<"[MEM_2]", "[MEM_1]", "[MEM_2]">>

AddPaths == {<<EarlyLife>>, <<Career2>>, <<Career3>>, <<EarlyLife, Childhood>>,
             <<EarlyLife, Childhood, Details>>,
             <<EarlyLife, Childhood, Details, Deeper>>,
             <<Unnumbered>>, <<EarlyLife, Career2>>, <<>>}

AddCalls ==
    {Call("add_section", ByPath(path), content, NoTitle) :
        path \in AddPaths, content \in {<<>>, Cited}}

UpdateTargets == {ByPath(<<>>), ByPath(<<EarlyLife>>), ByPath(<<Unnumbered>>),
                  ByTitle(Childhood), ByTitle(Career2)}

UpdateCalls ==
    {Call("update_section", target, content, new_title) :
        target \in UpdateTargets,
        content \in {NoContent, Uncited, Cited, CitedTwice},
        new_title \in {NoTitle, Career2, Unnumbered}}

DeleteTargets == {ByPath(<<>>), ByPath(<<EarlyLife>>), ByPath(<<Unnumbered>>),
                  ByPath(<<EarlyLife, Childhood>>), ByTitle(Career2)}

DeleteCalls ==
    {Call("delete_section", target, NoContent, NoTitle) : target \in DeleteTargets}

\* the sections the writers read for their prompts
ReadTargets == {ByPath(<<>>), ByPath(<<EarlyLife>>), ByPath(<<Unnumbered>>),
                ByTitle(Childhood), ByTitle(Career2)}

\* the calls of the tasks that run side by side (the section writers of one
\* update, each working on its own section)
ConcurrentCalls ==
    {Call("update_section", ByPath(<<EarlyLife>>), Uncited, NoTitle),
     Call("update_section", ByTitle(Childhood), Cited, NoTitle),
     Call("add_section", ByPath(<<Career2>>), <<>>, NoTitle),
     Call("delete_section", ByPath(<<EarlyLife, Childhood>>), NoContent, NoTitle)}

Writers == {"writer1", "writer2"}

(***************************************************************************)
(* Biography.__init__ (lines 75-92) and load_from_file (lines 130-164)     *)
(***************************************************************************)
\* a new biography: the root alone
NewBiography == Section(RootTitle, <<>>, 0)

\* a biography read from its file: one chapter with a cited content and one
\* subsection
LoadedBiography ==
    [NewBiography EXCEPT !.subsections =
        <<[Section(EarlyLife, Cited, 0) EXCEPT !.subsections =
              <<Section(Childhood, <<>>, 0)>>]>>]

\* no file has been written
NoFile == Section(NoTitle, <<>>, 0)

Idle == [pc |-> "idle", call |-> NoCall, id |-> 0]

BiographyInit ==
    /\ root \in {NewBiography, LoadedBiography}
    /\ saved = NoFile
    /\ write_lock = {}
    /\ pending_writes = 0
    /\ all_writes_complete = TRUE
    /\ clock = 0
    /\ op_count = 0
    /\ writes = [w \in Writers |-> Idle]
    /\ save_pc = "idle"
    /\ save_seen = {}
    /\ last_call = NoCall
    /\ result = NoOutcome
    \* a new user has no file; a biography that was loaded has the file it
    \* was read from (lines 144-160)
    /\ files = IF root = NewBiography THEN <<>> ELSE <<to_dict(root)>>
    /\ version = 1
    /\ file_name = get_next_version(files)

(***************************************************************************)
(* One caller: every call runs to its end before the next is made, as the  *)
(* event loop runs it when no other task holds the lock.                   *)
(* _increment_pending_writes, the locked body and                          *)
(* _decrement_pending_writes leave the counter, the event and the lock as  *)
(* they found them.                                                        *)
(***************************************************************************)
NoTaskRuns ==
    /\ \A w \in Writers : writes[w].pc = "idle"
    /\ save_pc \in {"idle", "returned", "timed_out"}
    /\ write_lock = {}

Mutation(call) ==
    /\ NoTaskRuns
    /\ op_count < MaxOps
    /\ op_count' = op_count + 1
    /\ clock' = clock + 1
    /\ LET outcome == Body(root, call, clock + 1)
       IN /\ root' = outcome.root
          /\ result' = [status |-> outcome.status, value |-> outcome.value,
                        was |-> outcome.was, loc |-> outcome.loc]
    /\ last_call' = call
    /\ UNCHANGED <<saved, write_lock, pending_writes, all_writes_complete, writes,
                   save_pc, save_seen, fileVars>>
    /\ UNCHANGED <<sessionVars, agentVars>>

add_section == \E call \in AddCalls : Mutation(call)
update_section == \E call \in UpdateCalls : Mutation(call)
delete_section == \E call \in DeleteCalls : Mutation(call)

\* lines 178-179: open(f'{self.file_name}.json', 'w') and json.dump
WriteFile(directory, name, data) ==
    [v \in DOMAIN directory \cup {name} |-> IF v = name THEN data ELSE directory[v]]

\* get_section called with no task running
get_section_call(target, hide_memory_links) ==
    /\ NoTaskRuns
    /\ op_count < MaxOps
    /\ op_count' = op_count + 1
    /\ LET outcome == GetSectionBody(root, target, hide_memory_links)
       IN /\ root' = outcome.root
          /\ result' = [status |-> outcome.status, value |-> outcome.value,
                        was |-> outcome.was, loc |-> outcome.loc]
    /\ last_call' = Call("get_section", target, NoContent, NoTitle)
    /\ UNCHANGED <<saved, write_lock, pending_writes, all_writes_complete, clock,
                   writes, save_pc, save_seen, fileVars>>
    /\ UNCHANGED <<sessionVars, agentVars>>

\* Biography.load_from_file(user_id) (lines 136-164): a new Biography, with
\* the tree of the latest file when there is one
load_from_file ==
    /\ NoTaskRuns
    /\ op_count < MaxOps
    /\ op_count' = op_count + 1
    /\ clock' = clock + 1
    /\ LET next_version == get_next_version(files)
           latest_version == next_version - 1
       IN /\ file_name' = next_version
          /\ IF latest_version < 1
             THEN /\ root' = Section(RootTitle, <<>>, clock + 1)
                  /\ version' = next_version
             ELSE /\ root' = from_dict(files[latest_version], clock + 1)
                  /\ version' = latest_version
    /\ write_lock' = {}
    /\ pending_writes' = 0
    /\ all_writes_complete' = TRUE
    /\ last_call' = Call("load_from_file", ByPath(<<>>), NoContent, NoTitle)
    /\ result' = [status |-> "returned", value |-> "Biography", was |-> NoLoc,
                  loc |-> NoLoc]
    /\ UNCHANGED <<saved, files, writes, save_pc, save_seen>>
    /\ UNCHANGED <<sessionVars, agentVars>>

\* save (lines 166-183) with no write pending: the event is set, the lock free
save ==
    /\ NoTaskRuns
    /\ op_count < MaxOps
    /\ op_count' = op_count + 1
    /\ all_writes_complete
    /\ saved' = root
    /\ files' = WriteFile(files, file_name, to_dict(root))
    /\ UNCHANGED <<version, file_name>>
    /\ save_pc' = "returned"
    /\ save_seen' = {}
    /\ last_call' = Call("save", ByPath(<<>>), NoContent, NoTitle)
    /\ result' = [status |-> "returned", value |-> "None", was |-> NoLoc,
                  loc |-> NoLoc]
    /\ UNCHANGED <<root, write_lock, pending_writes, all_writes_complete, clock,
                   writes>>
    /\ UNCHANGED <<sessionVars, agentVars>>

NextTree ==
    \/ add_section
    \/ update_section
    \/ delete_section
    \/ \E target \in ReadTargets, hide_memory_links \in BOOLEAN :
          get_section_call(target, hide_memory_links)
    \/ load_from_file
    \/ save

(***************************************************************************)
(* Concurrent callers.  A task may be suspended wherever it awaits a lock  *)
(* or the event; the locked bodies hold no await.                          *)
(***************************************************************************)
\* asyncio.Lock lets a task in whoever holds it
LockNeverHeld(holders) == TRUE
\* asyncio.Lock.acquire returns when no task holds the lock
LockFree(holders) == holders = {}

\* save() goes on whatever the event says
SaveNeverWaits(event_set) == TRUE
\* self._all_writes_complete.wait() returns when the event is set
SaveWaitOver(event_set) == event_set

\* the task calls a mutation: _increment_pending_writes (lines 94-98)
BeginWrite(w) ==
    /\ writes[w].pc = "idle"
    /\ op_count < MaxWrites
    /\ op_count' = op_count + 1
    /\ \E call \in ConcurrentCalls :
          writes' = [writes EXCEPT ![w] =
                        [pc |-> "pending", call |-> call, id |-> op_count + 1]]
    /\ pending_writes' = pending_writes + 1
    /\ all_writes_complete' = FALSE
    /\ UNCHANGED <<root, saved, write_lock, clock, save_pc, save_seen, last_call,
                   result>>
    /\ UNCHANGED fileVars
    /\ UNCHANGED <<sessionVars, agentVars>>

\* async with self._write_lock
AcquireWriteLock(w) ==
    /\ writes[w].pc = "pending"
    /\ LockFree(write_lock)
    /\ write_lock' = write_lock \cup {w}
    /\ writes' = [writes EXCEPT ![w].pc = "locked"]
    /\ UNCHANGED <<root, saved, pending_writes, all_writes_complete, clock, op_count,
                   save_pc, save_seen, last_call, result>>
    /\ UNCHANGED fileVars
    /\ UNCHANGED <<sessionVars, agentVars>>

\* the locked body, to the release of the lock
WriteBody(w) ==
    /\ writes[w].pc = "locked"
    /\ clock' = clock + 1
    /\ LET outcome == Body(root, writes[w].call, clock + 1)
       IN /\ root' = outcome.root
          /\ result' = [status |-> outcome.status, value |-> outcome.value,
                        was |-> outcome.was, loc |-> outcome.loc]
    /\ last_call' = writes[w].call
    /\ write_lock' = write_lock \ {w}
    /\ writes' = [writes EXCEPT ![w].pc = "released"]
    /\ UNCHANGED <<saved, pending_writes, all_writes_complete, op_count, save_pc,
                   save_seen>>
    /\ UNCHANGED fileVars
    /\ UNCHANGED <<sessionVars, agentVars>>

\* finally: _decrement_pending_writes (lines 100-105)
EndWrite(w) ==
    /\ writes[w].pc = "released"
    /\ pending_writes' = pending_writes - 1
    /\ all_writes_complete' = IF pending_writes - 1 = 0 THEN TRUE
                              ELSE all_writes_complete
    /\ writes' = [writes EXCEPT ![w].pc = "idle"]
    /\ UNCHANGED <<root, saved, write_lock, clock, op_count, save_pc, save_seen,
                   last_call, result>>
    /\ UNCHANGED fileVars
    /\ UNCHANGED <<sessionVars, agentVars>>

\* the calls that have incremented the counter and not yet decremented it
PendingCalls == {writes[w].id : w \in {v \in Writers : writes[v].pc # "idle"}}

\* save() is called (line 166)
SaveCalled ==
    /\ save_pc \in {"idle", "returned", "timed_out"}
    /\ op_count < MaxWrites
    /\ op_count' = op_count + 1
    /\ save_pc' = "waiting"
    /\ save_seen' = PendingCalls
    /\ UNCHANGED <<root, saved, write_lock, pending_writes, all_writes_complete,
                   clock, writes, last_call, result>>
    /\ UNCHANGED fileVars
    /\ UNCHANGED <<sessionVars, agentVars>>

\* line 170: the wait on the event is over
SaveWaitPasses ==
    /\ save_pc = "waiting"
    /\ SaveWaitOver(all_writes_complete)
    /\ save_pc' = "passed"
    /\ UNCHANGED <<root, saved, write_lock, pending_writes, all_writes_complete,
                   clock, op_count, writes, save_seen, last_call, result>>
    /\ UNCHANGED fileVars
    /\ UNCHANGED <<sessionVars, agentVars>>

\* lines 171-172: thirty seconds have passed and the event is not set
SaveTimesOut ==
    /\ save_pc = "waiting"
    /\ ~all_writes_complete
    /\ save_pc' = "timed_out"
    /\ UNCHANGED <<root, saved, write_lock, pending_writes, all_writes_complete,
                   clock, op_count, writes, save_seen, last_call, result>>
    /\ UNCHANGED fileVars
    /\ UNCHANGED <<sessionVars, agentVars>>

\* line 174: async with self._write_lock
SaveAcquires ==
    /\ save_pc = "passed"
    /\ LockFree(write_lock)
    /\ write_lock' = write_lock \cup {"save"}
    /\ save_pc' = "locked"
    /\ UNCHANGED <<root, saved, pending_writes, all_writes_complete, clock, op_count,
                   writes, save_seen, last_call, result>>
    /\ UNCHANGED fileVars
    /\ UNCHANGED <<sessionVars, agentVars>>

\* lines 175-179: json.dump(self.root.to_dict(), f)
SaveWrites ==
    /\ save_pc = "locked"
    /\ saved' = root
    /\ files' = WriteFile(files, file_name, to_dict(root))
    /\ save_pc' = "written"
    /\ UNCHANGED <<root, write_lock, pending_writes, all_writes_complete, clock,
                   op_count, writes, save_seen, last_call, result>>
    /\ UNCHANGED <<version, file_name>>
    /\ UNCHANGED <<sessionVars, agentVars>>

\* the lock is released and save() returns
SaveReturns ==
    /\ save_pc = "written"
    /\ write_lock' = write_lock \ {"save"}
    /\ save_pc' = "returned"
    /\ UNCHANGED <<root, saved, pending_writes, all_writes_complete, clock, op_count,
                   writes, save_seen, last_call, result>>
    /\ UNCHANGED fileVars
    /\ UNCHANGED <<sessionVars, agentVars>>

NextBio ==
    \/ \E w \in Writers : BeginWrite(w)
    \/ \E w \in Writers : AcquireWriteLock(w)
    \/ \E w \in Writers : WriteBody(w)
    \/ \E w \in Writers : EndWrite(w)
    \/ SaveCalled
    \/ SaveWaitPasses
    \/ SaveTimesOut
    \/ SaveAcquires
    \/ SaveWrites
    \/ SaveReturns

(***************************************************************************)
(* SessionScribe: _add_new_memory and get_session_memories on the list     *)
(* objects (session_scribe.py, lines 391-454).  The wait of lines 406-426  *)
(* changes nothing and ends when the flag is down or after 300 seconds;    *)
(* from line 428 to the return nothing suspends.                           *)
(***************************************************************************)
\* the caller is handed the Scribe's own list
ListItself(source, copy) == source
\* the list the caller is handed is the one .copy() made
ListCopy(source, copy) == copy

\* lines 451-454
add_new_memory ==
    /\ Len(lists[all_session_memories_list]) < MaxMemories
    /\ LET memory == Len(lists[all_session_memories_list]) + 1
       IN lists' = [i \in 1..Len(lists) |->
                      IF i \in {new_memories_list, all_session_memories_list}
                      THEN Append(lists[i], memory) ELSE lists[i]]
    /\ UNCHANGED <<new_memories_list, all_session_memories_list, memories>>
    /\ UNCHANGED <<cfgVars, session_in_progress, session_completed, session_timeout,
                   chat_history, user_message_count, last_user_message,
                   auto_biography_update_in_progress, run_pc, banks_saved, ready,
                   inflight, calls, post_result, delivered, interviewer_pending,
                   user_pending, last_interviewer_message, pending_tasks,
                   processing_in_progress, qa_tasks, new_memories,
                   all_session_memories, biography_update_in_progress,
                   session_agenda_update_in_progress, final_memories, bioVars,
                   runVars, inactivity, agentVars>>

\* lines 428-449
get_session_memories(clear_processed, include_processed) ==
    /\ Len(lists) + 2 <= MaxLists
    /\ LET source == IF include_processed THEN all_session_memories_list
                     ELSE new_memories_list
           copy == Len(lists) + 1
           empty == Len(lists) + 2
           returned == ListCopy(source, copy)
       IN /\ lists' = lists \o <<lists[source], <<>>>>
          /\ new_memories_list' = IF clear_processed THEN empty
                                  ELSE new_memories_list
          /\ memories' = [object |-> returned, items |-> lists[source]]
    /\ UNCHANGED all_session_memories_list
    /\ UNCHANGED <<cfgVars, session_in_progress, session_completed, session_timeout,
                   chat_history, user_message_count, last_user_message,
                   auto_biography_update_in_progress, run_pc, banks_saved, ready,
                   inflight, calls, post_result, delivered, interviewer_pending,
                   user_pending, last_interviewer_message, pending_tasks,
                   processing_in_progress, qa_tasks, new_memories,
                   all_session_memories, biography_update_in_progress,
                   session_agenda_update_in_progress, final_memories, bioVars,
                   runVars, inactivity, agentVars>>

NextScribe ==
    \/ add_new_memory
    \/ \E clear_processed \in BOOLEAN, include_processed \in BOOLEAN :
          get_session_memories(clear_processed, include_processed)

(***************************************************************************)
(* The session engine                                                      *)
(***************************************************************************)
Next ==
    \/ InterviewerResponds
    \/ UserResponds
    \/ ApiUserPosts
    \/ NotifyFanOut
    \/ NotifyUserBookkeeping
    \/ OnMessage
    \/ ProcessQaPair
    \/ WriteMemoryBank
    \/ QaPairDone
    \/ CheckAndTriggerBiographyUpdate
    \/ AutoUpdateReturns
    \/ AutoUpdateRaises
    \/ end_session
    \/ SignalHandler
    \/ RunStart
    \/ RunLoopExit
    \/ RunLoopRaises
    \/ RunTimeout
    \/ (\E drain \in Drains : FinalUpdateStarts(drain))
    \/ (\E outcome \in UpdateOutcomes : FinalUpdateEnds(outcome))
    \/ RunWaitUpdate

\* the session's own Biography is new, and nothing calls it in this model
Init == SessionInit /\ BiographyInit /\ root = NewBiography

Spec == Init /\ [][Next]_vars

\* the event loop runs what is ready and run() wakes from its sleeps
SpecFair == Spec /\ WF_vars(Next)

\* a session with a simulated user that nothing ends but its turn cap
NextTurnCap ==
    \/ InterviewerResponds
    \/ UserResponds
    \/ NotifyFanOut
    \/ NotifyUserBookkeeping
    \/ OnMessage
    \/ ProcessQaPair
    \/ WriteMemoryBank
    \/ QaPairDone
    \/ CheckAndTriggerBiographyUpdate
    \/ AutoUpdateReturns
    \/ AutoUpdateRaises
    \/ RunStart
    \/ RunLoopExit
    \/ (\E drain \in Drains : FinalUpdateStarts(drain))
    \/ (\E outcome \in UpdateOutcomes : FinalUpdateEnds(outcome))

InitTurnCap == Init /\ interaction_mode = "agent" /\ max_turns = 2

SpecTurnCap == InitTurnCap /\ [][NextTurnCap]_vars

\* a session of two agents that only a shutdown signal ends
NextSignal ==
    \/ InterviewerResponds
    \/ UserResponds
    \/ NotifyFanOut
    \/ NotifyUserBookkeeping
    \/ OnMessage
    \/ ProcessQaPair
    \/ WriteMemoryBank
    \/ QaPairDone
    \/ CheckAndTriggerBiographyUpdate
    \/ AutoUpdateReturns
    \/ AutoUpdateRaises
    \/ RunStart
    \/ RunLoopExit
    \/ (\E drain \in Drains : FinalUpdateStarts(drain))
    \/ (\E outcome \in UpdateOutcomes : FinalUpdateEnds(outcome))
    \/ SignalHandler

InitSignal == Init /\ interaction_mode = "agent" /\ max_turns = 0

SpecSignal == InitSignal /\ [][NextSignal]_vars

\* the session engine with subscribers that may fail
NextIsolation ==
    \/ OnMessageRaises
    \/ InterviewerResponds
    \/ UserResponds
    \/ ApiUserPosts
    \/ NotifyFanOut
    \/ NotifyUserBookkeeping
    \/ OnMessage
    \/ ProcessQaPair
    \/ WriteMemoryBank
    \/ QaPairDone
    \/ CheckAndTriggerBiographyUpdate
    \/ AutoUpdateReturns
    \/ AutoUpdateRaises
    \/ end_session
    \/ SignalHandler
    \/ RunStart
    \/ RunLoopExit
    \/ RunLoopRaises
    \/ RunTimeout
    \/ (\E drain \in Drains : FinalUpdateStarts(drain))
    \/ (\E outcome \in UpdateOutcomes : FinalUpdateEnds(outcome))
    \/ RunWaitUpdate

SpecIsolation == Init /\ [][NextIsolation]_vars

\* the session engine with its clock: the timeout is taken when the window
\* has passed
NextTimeout ==
    \/ Tick
    \/ InterviewerResponds
    \/ UserResponds
    \/ ApiUserPosts
    \/ NotifyFanOut
    \/ NotifyUserBookkeeping
    \/ OnMessage
    \/ ProcessQaPair
    \/ WriteMemoryBank
    \/ QaPairDone
    \/ CheckAndTriggerBiographyUpdate
    \/ AutoUpdateReturns
    \/ AutoUpdateRaises
    \/ end_session
    \/ SignalHandler
    \/ RunStart
    \/ RunLoopExit
    \/ RunLoopRaises
    \/ RunTimeoutAfterWindow
    \/ (\E drain \in Drains : FinalUpdateStarts(drain))
    \/ (\E outcome \in UpdateOutcomes : FinalUpdateEnds(outcome))
    \/ RunWaitUpdate

\* the turn cap plays no part in the timeout: max_turns is None
InitTimeout == Init /\ max_turns = 0

SpecTimeout == InitTimeout /\ [][NextTimeout]_vars /\ WF_vars(NextTimeout)

\* the Biography on its own, beside a session that has not started
InitBio ==
    /\ SessionInit
    /\ interaction_mode = "agent"
    /\ max_turns = 0
    /\ memory_threshold = 10
    /\ BiographyInit

SpecTree == InitBio /\ [][NextTree]_vars

SpecBio == InitBio /\ [][NextBio]_vars

\* the Scribe's lists on their own
InitScribe == InitBio /\ root = NewBiography

SpecScribe == InitScribe /\ [][NextScribe]_vars

(***************************************************************************)
(* SessionScribe._propose_followups                                        *)
(***************************************************************************)
College == "Where did you go to college?"
Study == "What did you study in college?"
Hobby == "What are your hobbies?"

Questions == {College, Study, Hobby}

Subject(question) == IF question = Hobby THEN "hobbies" ELSE "college"

\* what earlier sessions asked
historical_question_bank == <<College>>

\* QuestionBankBase.search_questions(query, k = 3): the stored questions that
\* are similar to the query
search_questions(bank, query) ==
    SelectSeq(bank, LAMBDA stored : Subject(stored) = Subject(query))

\* the answers of the LLM: whether it carries <proceed>true</proceed>, the
\* questions of its add_interview_question calls, whether it carries a recall,
\* and whether its calls name ids that the session agenda refuses
Responses ==
    [proceed : BOOLEAN,
     questions : {<<>>} \cup {<<q>> : q \in Questions}
                        \cup {<<q1, q2>> : q1 \in Questions, q2 \in Questions},
     recall : BOOLEAN,
     agenda_raises : BOOLEAN]

\* AddInterviewQuestion._run for each add_interview_question call of the
\* answer: proposed_question_bank.add_question(question)
AddToProposedBank(bank, answer) == bank \o answer.questions

\* and then session_agenda.add_interview_question(...), whose exception ends
\* the call after the bank has the question
AddToSessionAgenda(agenda, answer) ==
    IF answer.agenda_raises THEN agenda ELSE agenda \o answer.questions

\* the duplicate check left out: no proposed question has a similar one
NoSimilarQuestionsGroups(proposed_questions, proposed_bank) == <<>>
\* the proposed questions for which the two banks return a result
SimilarQuestionsGroups(proposed_questions, proposed_bank) ==
    SelectSeq(proposed_questions,
              LAMBDA question :
                  search_questions(historical_question_bank, question)
                      \o search_questions(proposed_bank, question) # <<>>)

\* a session holds MaxFollowups follow-up questions before the Scribe stops
MaxFollowups == 2

\* the event recorded one turn before the budget is used up
ExceededEarly(n) == n >= max_consideration_iterations - 1
\* lines 256-264: `if iterations >= self._max_consideration_iterations`
ExceededMaximum(n) == n >= max_consideration_iterations

FollowupFrame ==
    UNCHANGED <<sessionVars, bioVars, engineVars, toolVars, agendaVars, pipelineVars,
                writerVars>>

\* the call, up to the first prompt
ProposeFollowupsStarts ==
    /\ iterations \in {Returned, max_consideration_iterations}
    /\ Len(proposed_question_bank) < MaxFollowups
    /\ iterations' = 0
    /\ previous_tool_call' = <<>>
    /\ similar_questions' = <<>>
    /\ flagged' = {}
    /\ llm_calls' = 0
    /\ error_event' = FALSE
    /\ UNCHANGED <<response, interview_questions, proposed_question_bank>>
    /\ FollowupFrame

\* one turn of the while loop, from the LLM's answer to the next prompt or to
\* the return; leaving the loop with the budget used up records the error
\* event, which iterations = max_consideration_iterations stands for
ConsiderAndProposeFollowups(answer) ==
    /\ iterations \in 0..(max_consideration_iterations - 1)
    /\ response' = answer
    /\ IF answer.proceed
       THEN /\ interview_questions' =
                   AddToSessionAgenda(interview_questions, answer)
            /\ proposed_question_bank' =
                   AddToProposedBank(proposed_question_bank, answer)
            /\ iterations' = Returned
            /\ UNCHANGED <<previous_tool_call, similar_questions, flagged>>
       ELSE IF answer.questions = <<>>
       THEN /\ iterations' = IF answer.recall THEN iterations + 1 ELSE Returned
            /\ UNCHANGED <<previous_tool_call, similar_questions, flagged,
                           interview_questions, proposed_question_bank>>
       ELSE LET groups == SimilarQuestionsGroups(answer.questions,
                                                 proposed_question_bank)
            IN  /\ similar_questions' = groups
                /\ flagged' = flagged \cup Range(groups)
                /\ IF groups = <<>>
                   THEN /\ interview_questions' =
                               AddToSessionAgenda(interview_questions, answer)
                        /\ proposed_question_bank' =
                               AddToProposedBank(proposed_question_bank, answer)
                        /\ iterations' = Returned
                        /\ UNCHANGED previous_tool_call
                   ELSE /\ previous_tool_call' = answer.questions
                        /\ iterations' = iterations + 1
                        /\ UNCHANGED <<interview_questions,
                                       proposed_question_bank>>
    /\ llm_calls' = llm_calls + 1
    /\ error_event' =
          IF iterations' = Returned THEN ExceededMaximum(iterations)
          ELSE IF iterations' < max_consideration_iterations THEN FALSE
          ELSE ExceededMaximum(iterations')
    /\ FollowupFrame

NextFollowups ==
    \/ ProposeFollowupsStarts
    \/ \E answer \in Responses : ConsiderAndProposeFollowups(answer)

InitFollowups == InitBio /\ root = NewBiography

SpecFollowups == InitFollowups /\ [][NextFollowups]_vars

\* call_engine_async or handle_tool_calls_async raises inside the loop: the
\* exception leaves _propose_followups past the check of lines 256-264
ProposeFollowupsRaises ==
    /\ iterations \in 0..(max_consideration_iterations - 1)
    /\ llm_calls' = llm_calls + 1
    /\ iterations' = Returned
    /\ error_event' = FALSE
    /\ UNCHANGED <<response, previous_tool_call, similar_questions,
                   interview_questions, proposed_question_bank, flagged>>
    /\ FollowupFrame

(***************************************************************************)
(* SectionWriter.update_section                                            *)
(***************************************************************************)
MaxIterationsReached == "Max iterations reached when updating section."

WriterRunning == writer_iterations # Returned /\ update_result = NoResult

WriterFrame ==
    UNCHANGED <<sessionVars, bioVars, followupVars, engineVars, toolVars,
                agendaVars, pipelineVars>>

\* lines 44-48: max_iterations read, iterations = 0
UpdateSectionStarts ==
    /\ ~WriterRunning
    /\ writer_iterations' = 0
    /\ writer_llm_calls' = 0
    /\ update_result' = NoResult
    /\ WriterFrame

\* what one turn of the loop meets: an answer with <recall>, any other
\* answer, or an exception of the prompt, the engine or a tool
WriterAnswers == {"recall", "update", "raises"}

\* one turn of the while loop (lines 49-76) and, when the loop condition
\* fails after it, the return of lines 78-79
SectionWriterConsiders(answer) ==
    /\ WriterRunning
    /\ writer_iterations < max_consideration_iterations
    /\ writer_llm_calls' = writer_llm_calls + 1
    /\ writer_iterations' =
          IF answer = "recall" THEN writer_iterations + 1 ELSE writer_iterations
    /\ update_result' =
          IF answer = "update"
          THEN [success |-> TRUE, message |-> "Section updated successfully"]
          ELSE IF answer = "raises"
          THEN [success |-> FALSE, message |-> "str(e)"]
          ELSE IF writer_iterations + 1 < max_consideration_iterations
          THEN NoResult
          ELSE [success |-> FALSE, message |-> MaxIterationsReached]
    /\ WriterFrame

NextConsideration ==
    \/ ProposeFollowupsStarts
    \/ \E answer \in Responses : ConsiderAndProposeFollowups(answer)
    \/ ProposeFollowupsRaises
    \/ UpdateSectionStarts
    \/ \E answer \in WriterAnswers : SectionWriterConsiders(answer)

SpecConsideration == InitFollowups /\ [][NextConsideration]_vars

(***************************************************************************)
(* BaseAgent._call_engine                                                  *)
(***************************************************************************)
\* for attempt in range(10)
MaxAttempts == 10

\* a wait of one second after every failure
ConstantSleep(failed_attempt) == 1
\* sleep_time = 2 ** attempt
sleep_time(failed_attempt) == 2 ^ failed_attempt

\* a block holds at most MaxToolCalls calls
MaxToolCalls == 2

Tools == {"update_session_agenda", "add_interview_question"}

\* a call names a tool of self.tools or another name, and its tool raises or
\* returns
ToolCalls == [tool_name : Tools \cup {"unknown_tool"}, raises : BOOLEAN]

RECURSIVE Blocks(_)
Blocks(length) ==
    IF length = 0 THEN {<<>>}
    ELSE Blocks(length - 1)
         \cup {Append(block, call) :
                  block \in {b \in Blocks(length - 1) : Len(b) = length - 1},
                  call \in ToolCalls}

\* the answers of the engine: a text with a <tool_calls> block
Outputs == [kind : {"output"}, tool_calls : Blocks(MaxToolCalls)]

\* raise e after the loop: the name e of "except Exception as e" is unbound
\* once its except clause has ended
RaiseAfterLoop == [kind |-> "UnboundLocalError", tool_calls |-> <<>>]

EngineFrame ==
    UNCHANGED <<sessionVars, bioVars, followupVars, agendaVars, pipelineVars,
                writerVars>>

CallEngineStarts ==
    /\ call_pc = "idle"
    /\ call_pc' = "loop"
    /\ attempt' = 0
    /\ UNCHANGED <<invocations, sleeps, call_result, toolVars>>
    /\ EngineFrame

\* invoke_engine returns: the output is returned at once
InvokeEngineReturns(output) ==
    /\ call_pc = "loop"
    /\ attempt < MaxAttempts
    /\ invocations' = Append(invocations, "returned")
    /\ call_result' = output
    /\ call_pc' = "returned"
    /\ UNCHANGED <<attempt, sleeps, toolVars>>
    /\ EngineFrame

\* invoke_engine raises: the sleep, then the next turn of the loop or, after
\* the last turn, the raise
InvokeEngineRaises ==
    /\ call_pc = "loop"
    /\ attempt < MaxAttempts
    /\ invocations' = Append(invocations, "raised")
    /\ sleeps' = Append(sleeps, sleep_time(attempt))
    /\ attempt' = attempt + 1
    /\ IF attempt + 1 = MaxAttempts
       THEN /\ call_pc' = "raised"
            /\ call_result' = RaiseAfterLoop
       ELSE UNCHANGED <<call_pc, call_result>>
    /\ UNCHANGED toolVars
    /\ EngineFrame

(***************************************************************************)
(* BaseAgent.handle_tool_calls, handle_tool_calls_async                    *)
(***************************************************************************)
Event(sender, tag) == [sender |-> sender, tag |-> tag]

\* self.tools[tool_name] raises KeyError, or tool._run raises
CallFails(call) == call.tool_name \notin Tools \/ call.raises

\* the except clause that always rethrows
AlwaysRethrows(flag) == TRUE
\* if raise_error: raise RuntimeError(error_msg) from e
Rethrows(flag) == flag

\* the response of the engine is handed to the handler
HandleToolCallsStarts(flag) ==
    /\ call_pc = "returned"
    /\ tool_pc = "idle"
    /\ raise_error' = flag
    /\ parsed_calls' = call_result.tool_calls
    /\ call_index' = 0
    /\ tool_pc' = IF call_result.tool_calls = <<>> THEN "returned" ELSE "loop"
    /\ UNCHANGED <<event_stream, engineVars>>
    /\ EngineFrame

\* one turn of "for call in parsed_calls"
HandleToolCall ==
    /\ tool_pc = "loop"
    /\ LET call == parsed_calls[call_index + 1]
           last == call_index + 1 = Len(parsed_calls)
       IN  /\ call_index' = call_index + 1
           /\ IF CallFails(call)
              THEN /\ event_stream' = Append(event_stream, Event("system", "error"))
                   /\ tool_pc' = IF Rethrows(raise_error) THEN "raised"
                                 ELSE IF last THEN "returned" ELSE "loop"
              ELSE /\ event_stream' =
                          Append(event_stream, Event("system", call.tool_name))
                   /\ tool_pc' = IF last THEN "returned" ELSE "loop"
    /\ UNCHANGED <<raise_error, parsed_calls, engineVars>>
    /\ EngineFrame

NextAgent ==
    \/ CallEngineStarts
    \/ \E output \in Outputs : InvokeEngineReturns(output)
    \/ InvokeEngineRaises
    \/ \E flag \in BOOLEAN : HandleToolCallsStarts(flag)
    \/ HandleToolCall

InitAgent == InitBio /\ root = NewBiography

SpecAgent == InitAgent /\ [][NextAgent]_vars

(***************************************************************************)
(* SessionAgenda: the session id and delete_interview_question             *)
(***************************************************************************)
\* a user starts at most MaxSessions sessions
MaxSessions == 3

\* the largest of a non-empty set of ids
LatestId(ids) == CHOOSE id \in ids : \A other \in ids : other <= id

\* SessionAgenda.initialize_session_agenda: note.session_id == 0
InitialAgendaId == 0

\* SessionAgenda.get_last_session_agenda: the latest saved agenda, or the
\* initial one when nothing has been saved
get_last_session_agenda(saved_ids) ==
    IF saved_ids = {} THEN InitialAgendaId ELSE LatestId(saved_ids)

\* the session keeps the id of the agenda it loaded
SameSessionId(loaded_id) == loaded_id
\* self.session_id = self.session_agenda.session_id + 1
NewSessionId(loaded_id) == loaded_id + 1

\* question ids "1", "2", "1.1", "1.1.1" as paths
QuestionIds == {<<1>>, <<2>>, <<1, 1>>, <<1, 1, 1>>}

ParentId(question_id) == SubSeq(question_id, 1, Len(question_id) - 1)

Asked == [question |-> "Where did you grow up?", notes |-> <<"Grew up in Boston">>]

\* question == "" and notes == []
Cleared == [question |-> "", notes |-> <<>>]

\* the questions an agenda file can hold: any of the ids, each with its text
\* and a note; an id whose parent is missing is the test's "999.1"
Agendas == {[id \in present |-> Asked] : present \in SUBSET QuestionIds}

SubQuestions(agenda, question_id) ==
    {id \in DOMAIN agenda : Len(id) = Len(question_id) + 1
                            /\ ParentId(id) = question_id}

\* a question is kept only while it has sub-questions: here it never has
NoSubQuestions(agenda, question_id) == FALSE
HasSubQuestions(agenda, question_id) == SubQuestions(agenda, question_id) # {}

\* ValueError "Parent question with id ... not found" and "Question with id
\* ... not found"
DeleteRaises(agenda, question_id) ==
    \/ Len(question_id) > 1 /\ ParentId(question_id) \notin DOMAIN agenda
    \/ question_id \notin DOMAIN agenda

\* SessionAgenda.delete_interview_question
delete_interview_question(agenda, question_id) ==
    IF DeleteRaises(agenda, question_id) THEN agenda
    ELSE IF HasSubQuestions(agenda, question_id)
    THEN [agenda EXCEPT ![question_id] = Cleared]
    ELSE [id \in DOMAIN agenda \ {question_id} |-> agenda[id]]

AgendaFrame ==
    UNCHANGED <<sessionVars, bioVars, followupVars, engineVars, toolVars,
                pipelineVars, writerVars>>

\* InterviewSession.__init__, lines 88-90: the agenda is loaded and the
\* session takes the next id
SessionAgendaSetup(user, agenda) ==
    /\ sessions_started[user] < MaxSessions
    /\ session_id' = [session_id EXCEPT ![user] =
           NewSessionId(get_last_session_agenda(saved_agendas[user]))]
    /\ sessions_started' = [sessions_started EXCEPT ![user] = @ + 1]
    /\ topics' = agenda
    /\ UNCHANGED <<saved_agendas, delete_call>>
    /\ AgendaFrame

\* the agenda of the user's session is saved as session_agenda_<id>.json
SaveSessionAgenda(user) ==
    /\ session_id[user] > 0
    /\ session_id[user] \notin saved_agendas[user]
    /\ saved_agendas' = [saved_agendas EXCEPT ![user] = @ \cup {session_id[user]}]
    /\ UNCHANGED <<session_id, sessions_started, topics, delete_call>>
    /\ AgendaFrame

DeleteInterviewQuestion(question_id) ==
    /\ \E user \in Users : sessions_started[user] > 0
    /\ topics' = delete_interview_question(topics, question_id)
    /\ delete_call' = [n |-> (delete_call.n + 1) % 2,
                       question_id |-> question_id,
                       outcome |-> IF DeleteRaises(topics, question_id)
                                   THEN "ValueError" ELSE "deleted"]
    /\ UNCHANGED <<saved_agendas, session_id, sessions_started>>
    /\ AgendaFrame

NextAgenda ==
    \/ \E user \in Users, agenda \in Agendas : SessionAgendaSetup(user, agenda)
    \/ \E user \in Users : SaveSessionAgenda(user)
    \/ \E question_id \in QuestionIds : DeleteInterviewQuestion(question_id)

InitAgenda == InitBio /\ root = NewBiography

SpecAgenda == InitAgenda /\ [][NextAgenda]_vars

(***************************************************************************)
(* SessionScribe._process_qa_pair: the agenda pipeline under notes_lock    *)
(* and the memory pipeline under memory_lock                               *)
(***************************************************************************)
\* the Scribe is handed at most MaxPairs Q/A pairs
MaxPairs == 2

\* the Interviewer message and the User message of the n-th pair
Question(n) == 2 * n - 1
Answer(n) == 2 * n

NewPair == [task |-> "created", notes |-> "created", memory |-> "created",
            iterations |-> 0, current_qa |-> <<>>, quotes |-> <<>>]

\* a lock that is never refused
AlwaysFree(lock) == TRUE
\* asyncio.Lock.acquire without waiting: not locked and nobody waiting
CanAcquire(lock) == lock.holder = 0 /\ lock.waiters = <<>>

\* async with lock: taken at once or queued behind the holder
Acquire(lock, n) ==
    IF CanAcquire(lock) THEN [lock EXCEPT !.holder = n]
    ELSE [lock EXCEPT !.waiters = Append(@, n)]

\* leaving the async with block, normally or with an exception
Release(lock) == [lock EXCEPT !.holder = 0]

\* the first waiter of a released lock
Woken(lock, n) ==
    lock.holder = 0 /\ lock.waiters # <<>> /\ Head(lock.waiters) = n

Take(lock, n) == [holder |-> n, waiters |-> Tail(lock.waiters)]

\* the two add_event calls at the head of a locked pipeline
LockMessages(tag, n) ==
    <<[tag |-> tag, sender |-> "Interviewer", content |-> Question(n)],
      [tag |-> tag, sender |-> "User", content |-> Answer(n)]>>

\* _get_formatted_prompt: events = get_event_stream_str(filter tag);
\* current_qa = events[-2:] if len(events) >= 2 else []
CurrentQa(messages, tag) ==
    LET events == SelectSeq(messages, LAMBDA e : e.tag = tag)
    IN  IF Len(events) >= 2
        THEN <<events[Len(events) - 1].content, events[Len(events)].content>>
        ELSE <<>>

\* the first User message of the stream
OldestUserResponse(messages) ==
    LET events == SelectSeq(messages, LAMBDA e : e.tag = "memory_lock_message"
                                                 /\ e.sender = "User")
    IN  IF events = <<>> THEN 0 ELSE events[1].content
\* _get_recent_user_response: the last memory_lock_message event of the User
get_recent_user_response(messages) ==
    LET events == SelectSeq(messages, LAMBDA e : e.tag = "memory_lock_message"
                                                 /\ e.sender = "User")
    IN  IF events = <<>> THEN 0 ELSE events[Len(events)].content

PipelineFrame ==
    UNCHANGED <<cfgVars, session_in_progress, session_completed, session_timeout,
                chat_history, user_message_count, last_user_message,
                auto_biography_update_in_progress, run_pc, banks_saved, ready,
                inflight, calls, post_result, delivered, interviewer_pending,
                user_pending, last_interviewer_message, qa_tasks, new_memories,
                all_session_memories, biography_update_in_progress,
                session_agenda_update_in_progress, final_memories, listVars,
                runVars, inactivity, bioVars, followupVars, engineVars, toolVars,
                agendaVars, writerVars>>

Used(pipeline, n, read, written) ==
    [pipeline |-> pipeline, pair |-> n, reads |-> read, writes |-> written]

\* on_message, lines 96-99: asyncio.create_task(self._process_qa_pair(...))
OnMessageCreatesTask ==
    /\ Len(qa_pairs) < MaxPairs
    /\ qa_pairs' = Append(qa_pairs, NewPair)
    /\ access' = NoAccess
    /\ UNCHANGED <<notes_lock, memory_lock, lock_messages, historical_questions,
                   pending_tasks, processing_in_progress>>
    /\ PipelineFrame

\* lines 102-113: the increment, then gather wraps the two coroutines in tasks
ProcessQaPairStarts(n) ==
    /\ n \in 1..Len(qa_pairs)
    /\ qa_pairs[n].task = "created"
    /\ \A m \in 1..(n - 1) : qa_pairs[m].task # "created"
    /\ qa_pairs' = [qa_pairs EXCEPT ![n].task = "gather"]
    /\ pending_tasks' = pending_tasks + 1
    /\ processing_in_progress' = TRUE
    /\ access' = NoAccess
    /\ UNCHANGED <<notes_lock, memory_lock, lock_messages, historical_questions>>
    /\ PipelineFrame

\* lines 116-125 with the lock in hand: the two events, then
\* _update_session_agenda up to its LLM call
NotesLockTaken(n, lock) ==
    /\ notes_lock' = lock
    /\ lock_messages' = lock_messages \o LockMessages("notes_lock_message", n)
    /\ qa_pairs' = [qa_pairs EXCEPT ![n].notes = "update_session_agenda"]
    /\ access' = Used("notes", n, {"session_agenda"}, {})

NotesPipelineStarts(n) ==
    /\ n \in 1..Len(qa_pairs)
    /\ qa_pairs[n].task = "gather"
    /\ qa_pairs[n].notes = "created"
    /\ \A m \in 1..(n - 1) : qa_pairs[m].notes # "created"
    /\ IF CanAcquire(notes_lock)
       THEN NotesLockTaken(n, Acquire(notes_lock, n))
       ELSE /\ notes_lock' = Acquire(notes_lock, n)
            /\ qa_pairs' = [qa_pairs EXCEPT ![n].notes = "waiting"]
            /\ access' = NoAccess
            /\ UNCHANGED lock_messages
    /\ UNCHANGED <<memory_lock, historical_questions, pending_tasks,
                   processing_in_progress>>
    /\ PipelineFrame

NotesPipelineResumes(n) ==
    /\ n \in 1..Len(qa_pairs)
    /\ qa_pairs[n].notes = "waiting"
    /\ Woken(notes_lock, n)
    /\ NotesLockTaken(n, Take(notes_lock, n))
    /\ UNCHANGED <<memory_lock, historical_questions, pending_tasks,
                   processing_in_progress>>
    /\ PipelineFrame

\* lines 300-313 after the LLM call: handle_tool_calls runs the
\* update_session_agenda calls; then _propose_followups up to its LLM call
UpdateSessionAgendaReturns(n) ==
    /\ n \in 1..Len(qa_pairs)
    /\ qa_pairs[n].notes = "update_session_agenda"
    /\ qa_pairs' = [qa_pairs EXCEPT ![n].notes = "propose_followups",
                                    ![n].iterations = 0]
    /\ access' = Used("notes", n, {"session_agenda"}, {"session_agenda"})
    /\ UNCHANGED <<notes_lock, memory_lock, lock_messages, historical_questions,
                   pending_tasks, processing_in_progress>>
    /\ PipelineFrame

FollowupAnswers == {"none", "recall", "proceed", "proposes"}

\* one turn of the loop of _propose_followups (lines 161-262) for an answer
\* that proposes nothing, asks for a recall, carries <proceed>true</proceed>,
\* or proposes a question close to the pair's own question
ProposeFollowupsAnswers(n, answer) ==
    /\ n \in 1..Len(qa_pairs)
    /\ qa_pairs[n].notes = "propose_followups"
    /\ LET similar == n \in historical_questions
           goes_on == answer = "recall" \/ (answer = "proposes" /\ similar)
           last == qa_pairs[n].iterations + 1 >= max_consideration_iterations
       IN  /\ access' =
                 CASE answer = "none" -> Used("notes", n, {}, {})
                   [] answer = "recall" ->
                         Used("notes", n, {"memory_bank", "session_agenda"}, {})
                   [] answer = "proceed" ->
                         Used("notes", n, {},
                              {"session_agenda", "proposed_question_bank"})
                   [] answer = "proposes" ->
                         Used("notes", n,
                              {"historical_question_bank", "proposed_question_bank"}
                                 \cup (IF similar THEN {"session_agenda"} ELSE {}),
                              IF similar THEN {}
                              ELSE {"session_agenda", "proposed_question_bank"})
           /\ IF goes_on /\ ~last
              THEN /\ qa_pairs' = [qa_pairs EXCEPT ![n].iterations = @ + 1]
                   /\ UNCHANGED notes_lock
              ELSE /\ qa_pairs' = [qa_pairs EXCEPT ![n].notes = "done",
                                                   ![n].iterations =
                                                      IF goes_on THEN @ + 1 ELSE @]
                   /\ notes_lock' = Release(notes_lock)
    /\ UNCHANGED <<memory_lock, lock_messages, historical_questions,
                   pending_tasks, processing_in_progress>>
    /\ PipelineFrame

\* call_engine_async raises inside the agenda pipeline
NotesPipelineRaises(n) ==
    /\ n \in 1..Len(qa_pairs)
    /\ qa_pairs[n].notes \in {"update_session_agenda", "propose_followups"}
    /\ qa_pairs' = [qa_pairs EXCEPT ![n].notes = "failed"]
    /\ notes_lock' = Release(notes_lock)
    /\ access' = NoAccess
    /\ UNCHANGED <<memory_lock, lock_messages, historical_questions,
                   pending_tasks, processing_in_progress>>
    /\ PipelineFrame

\* lines 127-136 with the lock in hand: the two events, then
\* _write_memory_and_question_bank up to its LLM call; the prompt holds
\* current_qa and session_agenda.user_portrait
MemoryLockTaken(n, lock) ==
    /\ memory_lock' = lock
    /\ lock_messages' = lock_messages \o LockMessages("memory_lock_message", n)
    /\ qa_pairs' = [qa_pairs EXCEPT
          ![n].memory = "update_memory_question_bank",
          ![n].current_qa =
              CurrentQa(lock_messages \o LockMessages("memory_lock_message", n),
                        "memory_lock_message")]
    /\ access' = Used("memory", n, {"session_agenda"}, {})

MemoryPipelineStarts(n) ==
    /\ n \in 1..Len(qa_pairs)
    /\ qa_pairs[n].task = "gather"
    /\ qa_pairs[n].memory = "created"
    /\ \A m \in 1..(n - 1) : qa_pairs[m].memory # "created"
    /\ IF CanAcquire(memory_lock)
       THEN MemoryLockTaken(n, Acquire(memory_lock, n))
       ELSE /\ memory_lock' = Acquire(memory_lock, n)
            /\ qa_pairs' = [qa_pairs EXCEPT ![n].memory = "waiting"]
            /\ access' = NoAccess
            /\ UNCHANGED lock_messages
    /\ UNCHANGED <<notes_lock, historical_questions, pending_tasks,
                   processing_in_progress>>
    /\ PipelineFrame

MemoryPipelineResumes(n) ==
    /\ n \in 1..Len(qa_pairs)
    /\ qa_pairs[n].memory = "waiting"
    /\ Woken(memory_lock, n)
    /\ MemoryLockTaken(n, Take(memory_lock, n))
    /\ UNCHANGED <<notes_lock, historical_questions, pending_tasks,
                   processing_in_progress>>
    /\ PipelineFrame

\* lines 282-288 after the LLM call: handle_tool_calls runs the
\* update_memory_bank calls (each memory quotes the recent user response) and
\* the add_historical_question calls of the answer
WriteMemoryAndQuestionBankReturns(n, minted, adds_question) ==
    /\ n \in 1..Len(qa_pairs)
    /\ qa_pairs[n].memory = "update_memory_question_bank"
    /\ qa_pairs' = [qa_pairs EXCEPT
          ![n].memory = "done",
          ![n].quotes = [i \in 1..minted |-> get_recent_user_response(lock_messages)]]
    /\ historical_questions' =
          IF adds_question THEN historical_questions \cup {n}
          ELSE historical_questions
    /\ memory_lock' = Release(memory_lock)
    /\ access' = Used("memory", n, {},
                      (IF minted > 0 THEN {"memory_bank", "memory_lists"} ELSE {})
                      \cup (IF adds_question THEN {"historical_question_bank"}
                            ELSE {}))
    /\ UNCHANGED <<notes_lock, lock_messages, pending_tasks, processing_in_progress>>
    /\ PipelineFrame

\* call_engine_async raises inside the memory pipeline
MemoryPipelineRaises(n) ==
    /\ n \in 1..Len(qa_pairs)
    /\ qa_pairs[n].memory = "update_memory_question_bank"
    /\ qa_pairs' = [qa_pairs EXCEPT ![n].memory = "failed"]
    /\ memory_lock' = Release(memory_lock)
    /\ access' = NoAccess
    /\ UNCHANGED <<notes_lock, lock_messages, historical_questions,
                   pending_tasks, processing_in_progress>>
    /\ PipelineFrame

\* gather waits for the two pipelines whatever they do
GatherWaitsForBoth(pair) ==
    pair.notes \in {"done", "failed"} /\ pair.memory \in {"done", "failed"}
\* asyncio.gather without return_exceptions: over when both have returned, or
\* as soon as one has raised
GatherOver(pair) ==
    \/ pair.notes = "done" /\ pair.memory = "done"
    \/ pair.notes = "failed"
    \/ pair.memory = "failed"

\* lines 113-114: finally: await self._decrement_pending_tasks()
ProcessQaPairEnds(n) ==
    /\ n \in 1..Len(qa_pairs)
    /\ qa_pairs[n].task = "gather"
    /\ GatherOver(qa_pairs[n])
    /\ qa_pairs' = [qa_pairs EXCEPT ![n].task = "finished"]
    /\ IF CounterDrained(pending_tasks)
       THEN pending_tasks' = 0 /\ processing_in_progress' = FALSE
       ELSE pending_tasks' = pending_tasks - 1 /\ UNCHANGED processing_in_progress
    /\ access' = NoAccess
    /\ UNCHANGED <<notes_lock, memory_lock, lock_messages, historical_questions>>
    /\ PipelineFrame

NextPipelines ==
    \/ OnMessageCreatesTask
    \/ \E n \in 1..MaxPairs : ProcessQaPairStarts(n)
    \/ \E n \in 1..MaxPairs : NotesPipelineStarts(n)
    \/ \E n \in 1..MaxPairs : NotesPipelineResumes(n)
    \/ \E n \in 1..MaxPairs : UpdateSessionAgendaReturns(n)
    \/ \E n \in 1..MaxPairs, answer \in FollowupAnswers :
          ProposeFollowupsAnswers(n, answer)
    \/ \E n \in 1..MaxPairs : NotesPipelineRaises(n)
    \/ \E n \in 1..MaxPairs : MemoryPipelineStarts(n)
    \/ \E n \in 1..MaxPairs : MemoryPipelineResumes(n)
    \/ \E n \in 1..MaxPairs, minted \in 0..1, adds_question \in BOOLEAN :
          WriteMemoryAndQuestionBankReturns(n, minted, adds_question)
    \/ \E n \in 1..MaxPairs : MemoryPipelineRaises(n)
    \/ \E n \in 1..MaxPairs : ProcessQaPairEnds(n)

InitPipelines == InitBio /\ root = NewBiography

SpecPipelines == InitPipelines /\ [][NextPipelines]_vars

(***************************************************************************)
(* Properties of the session engine (specification Spec)                   *)
(***************************************************************************)

\* C1: a message posted through add_message_to_chat_history while
\* session_in_progress is false has no effect: the chat history keeps its
\* messages, no task that would deliver the message is created, no subscriber
\* is given it, and the call does not raise; and what subscribers are given
\* is always in the chat history.
C1_PostIgnoredWhenNotInProgress ==
    [][/\ ((InterviewerResponds \/ UserResponds \/ ApiUserPosts)
              /\ ~session_in_progress) =>
             /\ chat_history' = chat_history
             /\ ready' = ready
             /\ delivered' = delivered
             /\ post_result' = "ignored"
       /\ \A s \in Subscribers :
             Range(delivered'[s])
                \subseteq {chat_history'[i].id : i \in 1..Len(chat_history')}]_vars

\* a post was ignored after the session had ended with messages in its
\* history that subscribers were given
C1_Witness ==
    /\ post_result = "ignored"
    /\ ~session_in_progress
    /\ chat_history # <<>>
    /\ \E s \in Subscribers : delivered[s] # <<>>

\* C2: at most one automatic biography update is in flight at any time: two
\* calls of update_biography_with_memories made by the scheduler never overlap.
C2_OneAutoUpdateInFlight == Len(inflight) <= 1

\* an update is in flight, the session goes on and the Scribe again holds
\* enough new memories for an update
C2_Witness ==
    /\ Len(inflight) = 1
    /\ session_in_progress
    /\ user_message_count >= 2
    /\ Len(new_memories) >= memory_threshold

C15_FlagIffCounterNonZero ==
    /\ processing_in_progress <=> pending_tasks # 0
    /\ pending_tasks >= 0
    /\ pending_tasks = Len(qa_tasks)

\* two Q/A pairs are being processed at once
C15_Witness ==
    /\ pending_tasks = 2
    /\ processing_in_progress
    /\ Len(qa_tasks) = 2

\* C18: with max_turns set, the bookkeeping of the User message that brings
\* the count to max_turns marks the session not in progress; once run() has
\* started the mark is never taken back, and a message posted while it stands
\* is rejected: no Message is created, nothing is appended or fanned out; and
\* run() leaves its monitoring loop for the teardown.
C18_TurnCapEndsSession ==
    /\ [][/\ (/\ NotifyUserBookkeeping
               /\ user_message_count' # user_message_count
               /\ max_turns # 0
               /\ user_message_count' >= max_turns) => ~session_in_progress'
          /\ (~session_in_progress /\ run_pc # "start") => ~session_in_progress'
          /\ (/\ ~session_in_progress
              /\ \E role \in Roles, type \in MessageTypes :
                    add_message_to_chat_history(role, type))
                => /\ post_result' = "ignored"
                   /\ calls' = calls
                   /\ chat_history' = chat_history
                   /\ ready' = ready]_vars
    /\ (/\ run_pc = "monitor"
        /\ max_turns # 0
        /\ user_message_count >= max_turns
        /\ ~session_in_progress) ~> (run_pc \notin {"start", "monitor"})

\* the cap was reached, the Interviewer's next message was rejected and run()
\* went through its teardown
C18_Witness ==
    /\ interaction_mode = "agent"
    /\ max_turns # 0
    /\ user_message_count = max_turns
    /\ post_result = "ignored"
    /\ ~session_in_progress
    /\ ~session_timeout
    /\ run_pc = "done"

\* C19: however run() leaves its monitoring loop (the session ended, the
\* turn cap, the timeout, an exception in the try block, an exception in the
\* final update), the teardown writes the memory bank and then the historical
\* question bank, once; session_completed becomes true in the block that
\* wrote them and is true only while session_in_progress is false; and a
\* run() that has left the loop reaches that block.
C19_TeardownSavesBanks ==
    /\ [](session_completed =>
            /\ banks_saved = <<"memory_bank", "historical_question_bank">>
            /\ ~session_in_progress)
    /\ [](run_pc = "done" => session_completed)
    /\ [][(banks_saved' # banks_saved \/ session_completed' # session_completed) =>
            /\ banks_saved = <<>>
            /\ ~session_completed
            /\ banks_saved' = <<"memory_bank", "historical_question_bank">>
            /\ session_completed'
            /\ run_pc' = "done"]_vars
    /\ (run_pc \in {"final_update", "final_running", "wait_update"})
          ~> (run_pc = "done")

\* the Interviewer's first turn raised, the final update raised too, and the
\* banks were written
C19_Witness ==
    /\ loop_error
    /\ final_update_outcome = "raised"
    /\ run_pc = "done"
    /\ session_completed
    /\ banks_saved = <<"memory_bank", "historical_question_bank">>

\* C20: when the biography's save fails in run()'s final update, run() ends
\* by raising.
C20_SaveErrorSurfaces ==
    (run_pc = "done" /\ final_update_outcome = "save_failed")
      => RunOutcome = "raised"

\* C22: whatever a subscriber is handed, and whatever waits to be fanned
\* out or handed over, is a message of type conversation or skip that is in
\* the chat history; no like is in the chat history; and posting a like
\* leaves the chat history and the loop's queue as they were.
C22_OnlyHistoryIsDelivered ==
    /\ [](/\ \A i \in 1..Len(chat_history) :
               chat_history[i].type \in {"conversation", "skip"}
          /\ \A sub \in Subscribers : \A i \in 1..Len(delivered[sub]) :
               \E j \in 1..Len(chat_history) :
                  chat_history[j].id = delivered[sub][i]
          /\ \A i \in 1..Len(ready) :
               ready[i].kind \in {"notify", "on_message", "notify_tail"} =>
                  \E j \in 1..Len(chat_history) : chat_history[j] = ready[i].msg)
    /\ [][\A role \in Roles :
            add_message_to_chat_history(role, "like") =>
               /\ chat_history' = chat_history
               /\ ready' = ready]_vars

\* a like was posted and made a Message that is not in the chat history,
\* and a skip was handed to the Scribe
C22_Witness ==
    /\ post_result = "returned"
    /\ chat_history # <<>>
    /\ chat_history[1].id = 1
    /\ calls > Len(chat_history)
    /\ \E j \in 1..Len(chat_history) :
          /\ chat_history[j].type = "skip"
          /\ \E i \in 1..Len(delivered["SessionScribe"]) :
                delivered["SessionScribe"][i] = chat_history[j].id

\* C23: each subscriber is handed the messages it receives in the order in
\* which they were posted: of two messages handed to the same subscriber, the
\* one posted first is handed over first.
C23_DeliveryFollowsPostOrder ==
    \A sub \in Subscribers :
       \A i \in 1..Len(delivered[sub]), j \in 1..Len(delivered[sub]) :
          i < j => delivered[sub][i] < delivered[sub][j]

\* the API user posted a second message before the first was fanned out, and
\* the Scribe has been handed three messages
C23_Witness ==
    /\ interaction_mode = "api"
    /\ Len(delivered["SessionScribe"]) >= 3
    /\ Len(delivered["Interviewer"]) >= 2

\* C29: a check of the scheduler is only made by the bookkeeping of a User
\* message whose ordinal is a multiple of max(1, threshold // 5); an
\* incremental update is only launched by such a check, while the session is
\* in progress, no update is in flight and the unprocessed memories are at
\* least the threshold; the update is handed exactly the unprocessed
\* memories, and the Scribe holds none of them afterwards.
C29_SchedulerLaunch ==
    [][LET checks(queue) == Len(SelectSeq(queue, LAMBDA t : t.kind = "check"))
           N == IF memory_threshold \div 5 >= 1 THEN memory_threshold \div 5 ELSE 1
       IN /\ checks(ready') > checks(ready) =>
               /\ Head(ready).kind = "notify_tail"
               /\ Head(ready).msg.role = "User"
               /\ user_message_count' = user_message_count + 1
               /\ user_message_count' % N = 0
          /\ inflight' # inflight /\ Len(inflight') >= Len(inflight) =>
               /\ Head(ready).kind = "check"
               /\ session_in_progress
               /\ inflight = <<>>
               /\ ~auto_biography_update_in_progress
               /\ ~biography_update_in_progress
               /\ Len(new_memories) >= memory_threshold
               /\ inflight' = <<new_memories>>
               /\ new_memories' = <<>>]_vars

\* with a threshold of 10 a check made on the second User message has
\* launched an update with ten memories
C29_Witness ==
    /\ memory_threshold = 10
    /\ user_message_count = 2
    /\ inflight # <<>>
    /\ Len(inflight[1]) >= 10
    /\ new_memories = <<>>
    /\ auto_biography_update_in_progress

\* C30: in a session that only its turn cap ends, so that every User message
\* was handed to the Scribe before the session ended: when the final update
\* starts after a wait for the Scribe that did not run into its 300-second
\* bound, no Q/A pair is being processed and none waits to be counted as
\* pending.
C30_ScribeDrainedBeforeFinalUpdate ==
    [][FinalUpdateStarts("drained") =>
          /\ pending_tasks = 0
          /\ qa_tasks = <<>>
          /\ \A i \in 1..Len(ready) : ready[i].kind # "qa"]_vars

(***************************************************************************)
(* Properties of the router with failing subscribers (SpecIsolation)       *)
(***************************************************************************)

\* C24: a subscriber whose on_message raises takes nothing with it: the
\* failure leaves session_in_progress and the other waiting tasks as they
\* were; when the fan-out of a message is over, the message has been handed
\* to all of its subscribers or to none of them; and the fan-out of a later
\* message, while the session is in progress, still makes one task for each
\* of its subscribers.
C24_FailingSubscriberIsIsolated ==
    [][/\ OnMessageRaises =>
            /\ session_in_progress' = session_in_progress
            /\ ready' = Tail(ready)
       /\ NotifyUserBookkeeping =>
            LET m == Head(ready).msg
                subs == Subscriptions(interaction_mode, m.role)
                handed(sub) == \E i \in 1..Len(delivered[sub]) :
                                  delivered[sub][i] = m.id
            IN \/ \A k \in 1..Len(subs) : handed(subs[k])
               \/ \A k \in 1..Len(subs) : ~handed(subs[k])
       /\ (NotifyFanOut /\ session_in_progress) =>
            LET m == Head(ready).msg
                subs == Subscriptions(interaction_mode, m.role)
            IN /\ Len(ready') = Len(ready) + Len(subs)
               /\ \A k \in 1..Len(subs) :
                     ready'[Len(ready) - 1 + k] = Task("on_message", m, subs[k], NoMsg)
      ]_vars

\* the Interviewer failed on the first User message and answered the second;
\* the Scribe was handed both
C24_Witness ==
    /\ interaction_mode = "api"
    /\ session_in_progress
    /\ run_pc = "monitor"
    /\ Len(delivered["Interviewer"]) = 2
    /\ Len(delivered["SessionScribe"]) = 3
    /\ chat_history[Len(chat_history)].role = "Interviewer"
    /\ interviewer_pending = 0
    /\ calls = 3

(***************************************************************************)
(* Properties of the inactivity timeout (specification SpecTimeout)        *)
(***************************************************************************)

\* C17: run() takes the timeout only when more than timeout_minutes have
\* passed since the last accepted User message (since construction when there
\* was none); taking it sets session_in_progress to false, marks the session
\* timed out and, in every interaction mode, goes to the final update; a
\* session that timed out ends with the final update run, both banks saved
\* and run() returning; and a run() that is monitoring when the window has
\* passed leaves its loop unless a User message is accepted first.
C17_InactivityTimeout ==
    /\ [][(session_timeout' /\ ~session_timeout) =>
            /\ inactivity > timeout_minutes
            /\ ~session_in_progress'
            /\ run_pc' = "final_update"]_vars
    /\ []((session_timeout /\ run_pc = "done") =>
            /\ final_update_outcome # "none"
            /\ banks_saved = <<"memory_bank", "historical_question_bank">>
            /\ session_completed
            /\ RunOutcome = "returned")
    /\ session_timeout ~> (run_pc = "done")
    /\ (run_pc = "monitor" /\ inactivity > timeout_minutes)
          ~> (run_pc # "monitor" \/ inactivity <= timeout_minutes)

\* an API-mode session that had taken User messages timed out and is over
C17_Witness ==
    /\ interaction_mode = "api"
    /\ session_timeout
    /\ user_message_count > 0
    /\ inactivity > timeout_minutes
    /\ final_update_outcome = "returned"
    /\ run_pc = "done"
    /\ banks_saved = <<"memory_bank", "historical_question_bank">>

(***************************************************************************)
(* Properties of the Scribe's lists (specification SpecScribe)             *)
(***************************************************************************)

\* C16: get_session_memories returns the memories asked for (all of the
\* session's, or the unprocessed ones); with clear_processed it leaves the
\* unprocessed list empty and without it it leaves that list as it was; it
\* never changes the session's cumulative list; and what it returned is not
\* changed by memories added afterwards.
C16_GetSessionMemoriesFrame ==
    [][/\ \A clear_processed \in BOOLEAN, include_processed \in BOOLEAN :
             get_session_memories(clear_processed, include_processed) =>
                /\ lists'[memories'.object] =
                      IF include_processed THEN lists[all_session_memories_list]
                      ELSE lists[new_memories_list]
                /\ lists'[new_memories_list'] =
                      IF clear_processed THEN <<>> ELSE lists[new_memories_list]
                /\ lists'[all_session_memories_list']
                      = lists[all_session_memories_list]
       /\ (add_new_memory /\ memories.object # NoList) =>
             lists'[memories.object] = lists[memories.object]]_vars

\* the unprocessed memories were returned without being cleared, and a memory
\* was added afterwards
C16_Witness ==
    /\ memories.object # NoList
    /\ memories.items # <<>>
    /\ lists[memories.object] = memories.items
    /\ lists[new_memories_list] # memories.items
    /\ Len(lists[new_memories_list]) > Len(memories.items)

(***************************************************************************)
(* Properties of the Biography's tree (specification SpecTree)             *)
(***************************************************************************)

\* C4: after a successful update_section with content C on a section S, the
\* root included, memory_ids(S) holds every id cited in C, and it holds every
\* id it held before.
C4_CitationsAppendOnly ==
    [][(/\ op_count' # op_count
        /\ last_call'.op = "update_section"
        /\ result'.value = "Section") =>
          LET before == SectionAt(root, result'.was)
              after == SectionAt(root', result'.loc)
          IN /\ last_call'.content # NoContent =>
                   Range(extract_memory_ids(last_call'.content))
                      \subseteq Range(after.memory_ids)
             /\ Range(before.memory_ids) \subseteq Range(after.memory_ids)]_vars

\* C7: add_section with a well-formed path that names no existing section and
\* whose number is not the next one among its siblings (3 when only 1 exists)
\* fails with an error and leaves the tree unchanged.
C7_AddOutOfSequenceFails ==
    [][(/\ op_count' # op_count
        /\ last_call'.op = "add_section"
        /\ LET path == last_call'.target.path
               parent == get_section_by_path(root, Front(path))
               next_number == IF parent = NoLoc THEN 1
                              ELSE Len(SectionAt(root, parent).subsections) + 1
           IN /\ path # <<>>
              /\ is_valid_path_format(path)
              /\ get_section_by_path(root, path) = NoLoc
              /\ Last(Last(path).number) # next_number) =>
          /\ result'.status = "raised"
          /\ root' = root]_vars

\* C8: every section lies at depth at most 3, every first-level title starts
\* with one integer, and every deeper title's number is its parent's number
\* extended by exactly one component.
C8_PathsWellNumbered ==
    \A loc \in Locs(root, <<>>) :
        LET number == SectionAt(root, loc).title.number
        IN /\ Len(loc) <= MaxDepth
           /\ Len(loc) = 1 => Len(number) = 1
           /\ Len(loc) > 1 =>
                 LET parent == SectionAt(root, Front(loc)).title.number
                 IN /\ Len(number) = Len(parent) + 1
                    /\ SubSeq(number, 1, Len(parent)) = parent

\* C9: in every file that save writes, the children of each section are
\* numbered exactly 1..K.
C9_NoHolesAtSave ==
    saved # NoFile =>
       \A loc \in Locs(saved, <<>>) :
          LET subsections == SectionAt(saved, loc).subsections
          IN {IF subsections[i].title.number = <<>> THEN 0
              ELSE Last(subsections[i].title.number) : i \in 1..Len(subsections)}
                = 1..Len(subsections)

\* C10: delete_section on a section with subsections clears that section's
\* content and keeps the node and its descendants; on a leaf it removes the
\* leaf; no other section changes.
C10_DeleteKeepsParents ==
    [][(/\ op_count' # op_count
        /\ last_call'.op = "delete_section"
        /\ ~GetSectionRaises(last_call'.target)
        /\ get_section(root, last_call'.target) \notin {NoLoc, <<>>}) =>
          LET loc == get_section(root, last_call'.target)
              section == SectionAt(root, loc)
          IN IF section.subsections # <<>>
             THEN /\ loc \in Locs(root', <<>>)
                  /\ [SectionAt(root', loc) EXCEPT !.last_edit = section.last_edit]
                        = [section EXCEPT !.content = <<>>]
                  /\ Replaced(root', loc, section) = root
             ELSE root' = DelSubsection(root, Front(loc), Last(loc))]_vars

\* C11: add_section with an empty content on a path that already names a
\* section changes nothing: the section keeps its identifier, its content, its
\* memory ids and its subsections.
C11_AddExistingIsNoOp ==
    [][(/\ op_count' # op_count
        /\ last_call'.op = "add_section"
        /\ last_call'.content = <<>>
        /\ last_call'.target.path # <<>>
        /\ is_valid_path_format(last_call'.target.path)
        /\ get_section_by_path(root, last_call'.target.path) # NoLoc) =>
          LET loc == get_section_by_path(root, last_call'.target.path)
              before == SectionAt(root, loc)
              after == SectionAt(root', get_section_by_path(root', last_call'.target.path))
          IN /\ get_section_by_path(root', last_call'.target.path) = loc
             /\ after.id = before.id
             /\ after.content = before.content
             /\ after.memory_ids = before.memory_ids
             /\ after.subsections = before.subsections]_vars

\* C12: get_section with the memory links hidden leaves the tree as it was:
\* the section it names keeps its content, citations included, so that a save
\* made afterwards writes them.
C12_ReadLeavesTreeUnchanged ==
    [][\A target \in ReadTargets :
          get_section_call(target, TRUE) => root' = root]_vars

\* C13: every save writes the file of the version that follows the highest
\* version in the directory (1 when the directory is empty), so no save
\* writes over a file that is already there.
C13_SaveWritesNextVersion ==
    [][save => /\ file_name = get_next_version(files)
               /\ file_name \notin DOMAIN files]_vars

C5_SaveAfterPendingWrites ==
    [][/\ (save_pc = "locked" /\ save_pc' = "written") =>
             /\ \A w \in Writers :
                   writes[w].pc # "idle" => writes[w].id \notin save_seen
             /\ write_lock = {"save"}
             /\ \A w \in Writers : writes[w].pc # "locked"
             /\ saved' = root
       /\ (save_pc = "written" /\ save_pc' = "returned") =>
             write_lock' \cap Writers = {}]_vars

\* save writes the file after a call that was pending when it was called, and
\* while another mutation waits for the lock
C5_Witness ==
    /\ save_pc = "written"
    /\ save_seen # {}
    /\ saved = root
    /\ \E w \in Writers : writes[w].pc = "pending"

\* C6: the blocks that the write lock guards exclude each other; an
\* update_section that changes a content leaves on its section the content
\* and the last_edit of its own call and changes no other section; and save
\* returns only when the calls that were pending when it was called are over.
C6_WritesSerializedNoneLost ==
    [][/\ Cardinality({w \in Writers : writes'[w].pc = "locked"})
             + (IF save_pc' \in {"locked", "written"} THEN 1 ELSE 0) <= 1
       /\ (/\ clock' # clock
           /\ last_call'.op = "update_section"
           /\ last_call'.new_title = NoTitle
           /\ last_call'.content # NoContent
           /\ result'.value = "Section") =>
             LET loc == result'.loc
                 after == SectionAt(root', loc)
             IN /\ after.content = last_call'.content
                /\ after.last_edit = clock'
                /\ Replaced(root', loc, SectionAt(root, loc)) = root
       /\ (save_pc = "written" /\ save_pc' = "returned") =>
             \A w \in Writers : writes[w].id \in save_seen => writes[w].pc = "idle"]_vars

\* two updates of different sections were both pending when save was called;
\* save has returned, and each section holds what its own call wrote
C6_Witness ==
    /\ save_pc = "returned"
    /\ saved = root
    /\ save_seen = {writes[w].id : w \in Writers}
    /\ Cardinality(save_seen) = 2
    /\ writes["writer1"].call.target # writes["writer2"].call.target
    /\ \A w \in Writers :
          /\ writes[w].pc = "idle"
          /\ writes[w].call.op = "update_section"
          /\ get_section(root, writes[w].call.target) # NoLoc
          /\ SectionAt(root, get_section(root, writes[w].call.target)).content
                = writes[w].call.content
    /\ \E w \in Writers :
          SectionAt(root, get_section(root, writes[w].call.target)).last_edit = clock

(***************************************************************************)
(* Properties of the follow-up proposal (specification SpecFollowups)      *)
(***************************************************************************)
\* C21: only survivors of the duplicate check are added.  A step of
\* _propose_followups that adds questions to the proposed bank, or to the
\* session agenda (which gets nothing the bank did not get), is either the
\* step of an answer with <proceed>true</proceed> or the step of an answer
\* none of whose questions has a similar one in the two banks (so none of them
\* was flagged by a search of this call); the step that uses up the
\* consideration budget adds nothing.
C21_OnlySurvivorsAreAdded ==
    [][LET added == SubSeq(interview_questions', Len(interview_questions) + 1,
                           Len(interview_questions'))
           banked == SubSeq(proposed_question_bank',
                            Len(proposed_question_bank) + 1,
                            Len(proposed_question_bank'))
       IN  /\ SubSeq(interview_questions', 1, Len(interview_questions))
                 = interview_questions
           /\ SubSeq(proposed_question_bank', 1, Len(proposed_question_bank))
                 = proposed_question_bank
           /\ added \in {<<>>, banked}
           /\ banked # <<>> =>
                 /\ iterations' = Returned
                 /\ \/ response'.proceed
                    \/ \A i \in 1..Len(banked) :
                          /\ banked[i] \notin flagged'
                          /\ search_questions(historical_question_bank,
                                              banked[i]) = <<>>
                          /\ search_questions(proposed_question_bank,
                                              banked[i]) = <<>>
           /\ iterations' = max_consideration_iterations => banked = <<>>]_vars

\* a search found a similar question for "What did you study in college?",
\* the LLM then answered <proceed>true</proceed>, and the question was added
C21_Witness ==
    /\ iterations = Returned
    /\ Study \in flagged
    /\ response.proceed
    /\ interview_questions # <<>>
    /\ interview_questions[Len(interview_questions)] = Study
    /\ proposed_question_bank[Len(proposed_question_bank)] = Study

(***************************************************************************)
(* Properties of the agent's engine and tool calls (specification          *)
(* SpecAgent)                                                              *)
(***************************************************************************)
\* C25: the LLM call is retried a bounded number of times.  _call_engine
\* invokes the engine at most 10 times; an invocation that returns is the last
\* one and its output is what the call returns; the wait after the k-th failure
\* (k = 0, 1, ...) is 2^k seconds; after the 10th failure, and only then, an
\* exception is raised to the caller.
C25_BoundedRetries ==
    LET failures == {i \in 1..Len(invocations) : invocations[i] = "raised"}
    IN  /\ Len(invocations) <= 10
        /\ Len(sleeps) = Cardinality(failures)
        /\ \A k \in 0..(Len(sleeps) - 1) : sleeps[k + 1] = 2 ^ k
        /\ \A i \in 1..Len(invocations) :
              invocations[i] = "returned" =>
                 /\ i = Len(invocations)
                 /\ call_pc = "returned"
                 /\ call_result.kind = "output"
        /\ call_pc = "returned" => Len(invocations) = Cardinality(failures) + 1
        /\ call_pc = "raised" <=> Cardinality(failures) = 10
        /\ call_pc = "raised" => call_result.kind \notin {"none", "output"}
        /\ call_pc = "loop" => /\ call_result = NoOutput
                               /\ attempt = Cardinality(failures)

\* ten invocations have failed, the waits were 1, 2, 4, ..., 512 seconds, and
\* the call has raised
C25_Witness ==
    /\ call_pc = "raised"
    /\ Len(invocations) = 10
    /\ Len(sleeps) = 10
    /\ sleeps[1] = 1
    /\ sleeps[10] = 512

\* C26: a tool call that fails inside a tool-calls block is recorded as an
\* 'error' event on the event stream; with raise_error false the remaining
\* calls of the block are still executed in order (every call of the block
\* leaves its event, in the order of the block); with raise_error true the
\* error is rethrown at the first failing call and no later call is executed.
C26_FailingToolCall ==
    /\ Len(event_stream) = call_index
    /\ call_index <= Len(parsed_calls)
    /\ \A i \in 1..call_index :
          event_stream[i] =
             IF parsed_calls[i].tool_name \notin Tools \/ parsed_calls[i].raises
             THEN [sender |-> "system", tag |-> "error"]
             ELSE [sender |-> "system", tag |-> parsed_calls[i].tool_name]
    /\ tool_pc = "returned" => call_index = Len(parsed_calls)
    /\ ~raise_error => tool_pc # "raised"
    /\ raise_error =>
          \A i \in 1..call_index :
             event_stream[i].tag = "error" =>
                /\ i = call_index
                /\ tool_pc = "raised"
    /\ tool_pc = "raised" =>
          /\ call_index >= 1
          /\ event_stream[call_index].tag = "error"

\* raise_error is false, the first call of a block of two failed and the second
\* was executed after it
C26_Witness ==
    /\ tool_pc = "returned"
    /\ ~raise_error
    /\ Len(parsed_calls) = 2
    /\ CallFails(parsed_calls[1])
    /\ ~CallFails(parsed_calls[2])
    /\ event_stream = <<Event("system", "error"),
                        Event("system", parsed_calls[2].tool_name)>>

(***************************************************************************)
(* Properties of the session agenda (specification SpecAgenda)             *)
(***************************************************************************)
\* C27: session ids are monotonic per user.  The id of a session that is
\* constructed is the id of the user's latest saved session agenda plus one,
\* it is 1 when the user has no saved agenda (the initial agenda has id 0),
\* it is never below the id of the user's session before, and the ids of the
\* other users' sessions are not touched.
C27_SessionIdsMonotonic ==
    [][\A user \in Users :
          IF sessions_started'[user] # sessions_started[user]
          THEN /\ \A id \in saved_agendas[user] : id < session_id'[user]
               /\ session_id'[user] - 1 \in saved_agendas[user] \cup {0}
               /\ saved_agendas[user] = {} => session_id'[user] = 1
               /\ session_id'[user] >= session_id[user]
          ELSE session_id'[user] = session_id[user]]_vars

\* one user's third session follows the saved agendas 1 and 2 while the other
\* user, with nothing saved, is in a first session
C27_Witness ==
    \E user \in Users :
       /\ saved_agendas[user] = {1, 2}
       /\ session_id[user] = 3
       /\ \E other \in Users \ {user} :
             /\ saved_agendas[other] = {}
             /\ session_id[other] = 1

\* C28: deleting an interview question from the session agenda.  A question
\* without sub-questions is removed and every other question is as before; a
\* question with sub-questions has its text and notes cleared, stays in place,
\* and every other question, its descendants included, is as before; an id
\* that is not in the agenda, or whose parent is not, raises and changes
\* nothing.
C28_DeleteInterviewQuestion ==
    [][delete_call'.n # delete_call.n =>
          LET id == delete_call'.question_id
              others == DOMAIN topics \ {id}
              children == {c \in DOMAIN topics :
                              Len(c) = Len(id) + 1 /\ SubSeq(c, 1, Len(id)) = id}
          IN  IF \/ id \notin DOMAIN topics
                 \/ Len(id) > 1 /\ SubSeq(id, 1, Len(id) - 1) \notin DOMAIN topics
              THEN /\ delete_call'.outcome = "ValueError"
                   /\ topics' = topics
              ELSE /\ delete_call'.outcome = "deleted"
                   /\ \A other \in others :
                         other \in DOMAIN topics' /\ topics'[other] = topics[other]
                   /\ IF children = {}
                      THEN DOMAIN topics' = others
                      ELSE /\ DOMAIN topics' = DOMAIN topics
                           /\ topics'[id] = [question |-> "", notes |-> <<>>]]_vars

\* question "1" was deleted while it had sub-questions: it is cleared and
\* still there, with "1.1" and "1.1.1" as they were
C28_Witness ==
    /\ delete_call.outcome = "deleted"
    /\ delete_call.question_id = <<1>>
    /\ <<1>> \in DOMAIN topics
    /\ topics[<<1>>] = Cleared
    /\ {<<1, 1>>, <<1, 1, 1>>} \subseteq DOMAIN topics
    /\ topics[<<1, 1>>] = Asked
    /\ topics[<<1, 1, 1>>] = Asked

(***************************************************************************)
(* Properties of the router after the session has ended (specification     *)
(* SpecSignal)                                                             *)
(***************************************************************************)
\* C31: once session_in_progress is false no subscriber's on_message is
\* started: every step in which an on_message begins to run (the subscriber
\* is handed the message) is taken while the session is in progress.
C31_NoOnMessageAfterSessionEnd ==
    [][delivered' # delivered => session_in_progress]_vars

(***************************************************************************)
(* Properties of the Scribe's pipelines (specification SpecPipelines)      *)
(***************************************************************************)
NotesExecuting(pair) == pair.notes \in {"update_session_agenda", "propose_followups"}

MemoryExecuting(pair) == pair.memory = "update_memory_question_bank"

\* C32: the Scribe's pipelines are serialized per kind.  At any time at most
\* one Q/A pair is inside the agenda pipeline (it holds notes_lock) and at most
\* one is inside the memory pipeline (it holds memory_lock), whatever the
\* number of pairs queued.
C32_PipelinesSerializedPerKind ==
    /\ \A n, m \in 1..Len(qa_pairs) :
          NotesExecuting(qa_pairs[n]) /\ NotesExecuting(qa_pairs[m]) => n = m
    /\ \A n, m \in 1..Len(qa_pairs) :
          MemoryExecuting(qa_pairs[n]) /\ MemoryExecuting(qa_pairs[m]) => n = m
    /\ \A n \in 1..Len(qa_pairs) :
          /\ NotesExecuting(qa_pairs[n]) => notes_lock.holder = n
          /\ MemoryExecuting(qa_pairs[n]) => memory_lock.holder = n

\* the agenda pipeline of the first pair and the memory pipeline of the
\* second run at the same time, while the second pair's agenda pipeline waits
\* for notes_lock
C32_Witness ==
    /\ Len(qa_pairs) = 2
    /\ NotesExecuting(qa_pairs[1])
    /\ qa_pairs[2].notes = "waiting"
    /\ MemoryExecuting(qa_pairs[2])
    /\ qa_pairs[1].memory = "done"

\* C37: whenever processing_in_progress is false, no agenda pipeline and no
\* memory pipeline of any Q/A pair is executing, also when one of the two
\* pipelines of a pair has failed with an exception.
C37_IdleFlagMeansNoPipelineRuns ==
    ~processing_in_progress =>
       \A n \in 1..Len(qa_pairs) :
          ~NotesExecuting(qa_pairs[n]) /\ ~MemoryExecuting(qa_pairs[n])

\* C39: with several Q/A pairs queued the memory pipeline works on its own
\* pair.  The current Q/A placed in the prompt of a pair's memory pipeline is
\* the Interviewer message and the User message of that pair, and the source
\* quote of every memory the pipeline mints is the User message of that pair.
C39_MemoryPipelineUsesOwnPair ==
    \A n \in 1..Len(qa_pairs) :
       /\ qa_pairs[n].memory \in {"update_memory_question_bank", "done", "failed"}
             => qa_pairs[n].current_qa = <<2 * n - 1, 2 * n>>
       /\ qa_pairs[n].memory \in {"created", "waiting"}
             => qa_pairs[n].current_qa = <<>>
       /\ \A i \in 1..Len(qa_pairs[n].quotes) : qa_pairs[n].quotes[i] = 2 * n

\* two pairs have gone through the memory pipeline: each has minted a memory
\* that quotes its own User message, the second with its own Q/A in the prompt
C39_Witness ==
    /\ Len(qa_pairs) = 2
    /\ qa_pairs[1].memory = "done"
    /\ qa_pairs[1].quotes = <<2>>
    /\ qa_pairs[2].memory = "done"
    /\ qa_pairs[2].current_qa = <<3, 4>>
    /\ qa_pairs[2].quotes = <<4>>
    /\ Len(SelectSeq(lock_messages, LAMBDA e : e.tag = "memory_lock_message")) = 4

\* C33: the two pipelines neither write nor observe each other's stores.  A
\* step of the agenda pipeline reads and writes only the session agenda and the
\* proposed question bank; a step of the memory pipeline reads and writes only
\* the memory bank, the historical question bank and the Scribe's memory lists.
C33_PipelinesUseDisjointStores ==
    /\ access.pipeline = "notes" =>
          access.reads \cup access.writes
             \subseteq {"session_agenda", "proposed_question_bank"}
    /\ access.pipeline = "memory" =>
          access.reads \cup access.writes
             \subseteq {"memory_bank", "historical_question_bank", "memory_lists"}

\* the step is the start of SessionScribe.on_message for a User message
ScribeGetsUserMessage ==
    /\ ready # <<>>
    /\ Head(ready).kind = "on_message"
    /\ Head(ready).sub = "SessionScribe"
    /\ Head(ready).msg.role = "User"
    /\ delivered'["SessionScribe"] # delivered["SessionScribe"]

\* C34: every User message delivered to the Scribe gets a _process_qa_pair
\* task: the step that starts the Scribe's on_message for a User message
\* leaves a task for that message in the event loop.
C34_EveryUserMessageGetsATask ==
    [][ScribeGetsUserMessage =>
          \E i \in 1..Len(ready') :
              /\ ready'[i].kind = "qa"
              /\ ready'[i].msg = Head(ready).msg]_vars

\* C35: a run of _propose_followups and a run of SectionWriter.update_section
\* make at most MAX_CONSIDERATION_ITERATIONS LLM calls; the Scribe records
\* its error event, and the writer returns its "Max iterations reached"
\* result, exactly when the loop was left with the budget used up.
C35_ConsiderationLoopsBounded ==
    /\ llm_calls <= max_consideration_iterations
    /\ writer_llm_calls <= max_consideration_iterations
    /\ iterations = max_consideration_iterations => error_event
    /\ error_event => /\ iterations = max_consideration_iterations
                      /\ llm_calls = max_consideration_iterations
    /\ update_result.message = MaxIterationsReached
          <=> /\ update_result # NoResult
              /\ writer_iterations = max_consideration_iterations
    /\ update_result.message = MaxIterationsReached
          => ~update_result.success
             /\ writer_llm_calls = max_consideration_iterations

\* both loops have used their budget up, the Scribe's on flagged questions
C35_Witness ==
    /\ error_event
    /\ previous_tool_call # <<>>
    /\ update_result.message = MaxIterationsReached

\* the children of the section are in the order of their numeric prefixes
SiblingsAscending(section) ==
    \A i, j \in 1..Len(section.subsections) :
        i < j => ~TupleLess(get_sort_key(section.subsections[j].title),
                            get_sort_key(section.subsections[i].title))

\* C36: after every add_section and every update_section that returned, the
\* children of every section of the tree are ordered ascending by their
\* numeric prefix.
C36_SiblingsOrderedByPrefix ==
    [][(/\ op_count' # op_count
        /\ last_call'.op \in {"add_section", "update_section"}
        /\ result'.status = "returned")
          => \A loc \in Locs(root', <<>>) : SiblingsAscending(SectionAt(root', loc))]_vars

\* the sections of the tree, by their ids
SectionIds(tree) == {SectionAt(tree, loc).id : loc \in Locs(tree, <<>>)}

\* C40: an update_section call that gives a new title leaves the number of
\* sections of the tree as it was and every section in the tree, also when
\* the new title is the title of a sibling.
C40_TitleChangeKeepsEverySection ==
    [][(/\ op_count' # op_count
        /\ last_call'.op = "update_section"
        /\ last_call'.new_title # NoTitle
        /\ result'.status = "returned")
          => /\ Cardinality(Locs(root', <<>>)) = Cardinality(Locs(root, <<>>))
             /\ SectionIds(root') = SectionIds(root)]_vars

\* the list has grown at its end, or is as it was
Extends(longer, shorter) ==
    /\ Len(longer) >= Len(shorter)
    /\ SubSeq(longer, 1, Len(shorter)) = shorter

Appended(longer, shorter) == SubSeq(longer, Len(shorter) + 1, Len(longer))

\* no memory is in two of the lists, or twice in one
Disjoint(batches) ==
    /\ \A b \in 1..Len(batches) :
          \A i, j \in 1..Len(batches[b]) : i # j => batches[b][i] # batches[b][j]
    /\ \A b, c \in 1..Len(batches) :
          b # c => Range(batches[b]) \cap Range(batches[c]) = {}

\* C38: every memory minted stays in the cumulative list; a memory enters the
\* unprocessed list once, when it is minted, and leaves it only in a draining
\* call that hands over the whole list and empties it, so the unprocessed
\* list and the batches handed to the updates never share a memory.
C38_MemoriesPartitioned ==
    /\ [](/\ Disjoint(<<new_memories, final_memories>> \o inflight)
          /\ Range(new_memories) \subseteq Range(all_session_memories)
          /\ Disjoint(<<all_session_memories>>))
    /\ [][/\ Extends(all_session_memories', all_session_memories)
          /\ IF Extends(new_memories', new_memories)
             THEN /\ Appended(new_memories', new_memories)
                        = Appended(all_session_memories', all_session_memories)
                  /\ Extends(inflight, inflight')
             ELSE /\ new_memories' = <<>>
                  /\ \/ inflight' = Append(inflight, new_memories)
                     \/ final_memories' = new_memories]_vars

\* an incremental update holds a drained batch while memories minted after
\* the drain wait in the unprocessed list
C38_Witness ==
    /\ inflight # <<>>
    /\ inflight[1] # <<>>
    /\ new_memories # <<>>
    /\ Len(all_session_memories) = Len(inflight[1]) + Len(new_memories)

====
